---- MODULE Spec2Model ----
(***************************************************************************)
(* The capture-and-submit pipeline of the Noro browser extension:          *)
(*   src/extension/src/background.ts  (idle monitor, capture, submission)  *)
(*   src/extension/src/awsService.ts  (rate limiter, retry queue, client)  *)
(*                                                                         *)
(* The service worker is single-threaded: a task runs until its next       *)
(* await, so every action below is the code between two awaits of one      *)
(* task (the completion of the awaited call, then everything that runs     *)
(* synchronously after it, calls and returns included).                    *)
(***************************************************************************)
EXTENDS Integers, Sequences, FiniteSets, TLC

\* ------------------------------------------------------------ bounds
\* concurrent trigger handlers (idle listener / onMessage listener runs)
NumHandlers == 2
\* concurrent retryFailedSubmissions runs
NumDrains == 1
\* clock advances in a run
MaxTicks == 2
\* POST /context requests sent in a run
MaxPosts == 2
\* FailedSubmission records created in a run
MaxIds == 1
\* persisted-store operations that fail in a run
MaxStoreFails == 1
\* concurrent readers of the insights (getInsights / getCachedInsights calls)
NumReaders == 2
\* submitContext calls made one after the other in a run of the scenario
MaxCalls == 6
\* time from the start of the scenario to its last call, in ms
MaxElapsedMs == 50000
\* the entries in the retry queue when submit calls are made in sequence
SeqQueueLen == 3

\* ------------------------------------------------- program constants
MAX_REQUESTS_PER_MINUTE == 5
MAX_REQUESTS_PER_HOUR == 20
MIN_INTERVAL_MS == 12000
MINUTE_MS == 60000
HOUR_MS == 3600000
\* storeFailedSubmission keeps failedSubmissions.slice(-10)
QUEUE_KEEP == 10
\* initializeExtension: retentionDays: 7; DEFAULT_EXPIRATION.retentionMs
DEFAULT_RETENTION_DAYS == 7
DAY_MS == 24 * HOUR_MS
DEFAULT_EXPIRATION == [retentionMs |-> 7 * DAY_MS]
\* getInsights: Date.now() - cached.insights_cached_at < 3600000
CACHE_MS == 3600000
\* submitWorkspaceToAWS: setTimeout(.., 5000)
FETCH_DELAY_MS == 5000
\* the clock advances by half the minimum interval
TICK_MS == MIN_INTERVAL_MS \div 2

Handlers == 1..NumHandlers
Drains == (NumHandlers + 1)..(NumHandlers + NumDrains)
Procs == Handlers \cup Drains
Readers == (NumHandlers + NumDrains + 1)..(NumHandlers + NumDrains + NumReaders)
\* the expiration sweep started when the service worker loads
Sweepers == {NumHandlers + NumDrains + NumReaders + 1}
\* the two calls of initializeExtension a service-worker load can see: the
\* call at module load and the call of the onStartup / onInstalled listener
Loader == NumHandlers + NumDrains + NumReaders + 2
Listener == NumHandlers + NumDrains + NumReaders + 3
Starters == {Loader, Listener}
Tasks == Procs \cup Readers \cup Sweepers \cup Starters

\* Date.now() when the service worker starts (any instant far from 0)
StartTime == 10 * 24 * HOUR_MS

VARIABLES
    now,          \* Date.now()
    isCapturing,  \* background.ts: let isCapturing
    isActive,     \* chrome.storage.sync isActive
    userId,       \* chrome.storage.sync userId ("" = absent)
    rl,           \* chrome.storage.local: the five rate-limit keys (0 = absent)
    queue,        \* chrome.storage.local failed_submissions
    snaps,        \* chrome.storage.local workspace_<timestamp> keys: their values
    status,       \* last captureStatus broadcast ("none" before the first)
    pc,           \* per task: the await it is suspended at ("free" = not running)
    loc,          \* per task: its local variables
    posts,        \* history: the Date.now() of every POST /context sent
    nextId,       \* history: FailedSubmission records created so far
    ticks,        \* history: clock advances so far
    fails,        \* history: failed persisted-store operations so far
    foreign,      \* history: the drains between their read and their write of
                  \* the queue while another task wrote the queue
    windows,      \* the browser: what chrome.windows.getAll({populate}) returns
    imgs,         \* chrome.storage.local img_<timestamp>_<tabId> keys
    cache,        \* chrome.storage.local cached_insights, insights_cached_at
    retentionDays \* chrome.storage.sync retentionDays

vars == <<now, isCapturing, isActive, userId, rl, queue, snaps, status, pc, loc,
          posts, nextId, ticks, fails, foreign, windows, imgs, cache, retentionDays>>

\* ------------------------------------------------------------ values
NoWs == [timestamp |-> 0, windows |-> <<>>]

\* cached_insights and insights_cached_at, absent
NoCache == [present |-> FALSE, insights |-> <<>>, at |-> 0]

\* a WindowSnapshot with no tab yet
NoWindowSnapshot == [windowId |-> 0, activeTabId |-> 0 - 1, tabs |-> <<>>]

\* the rate-limit keys, all absent
NoRl == [last_aws_submission |-> 0, aws_requests_minute |-> 0,
         aws_requests_hour |-> 0, aws_minute_start |-> 0, aws_hour_start |-> 0]

LocInit == [
    newState |-> "none",  \* idle listener: newState
    event    |-> "none",  \* initializeExtension: what called it ("load",
                          \* "onStartup", "onInstalled")
    busy     |-> FALSE,   \* history: isCapturing when the idle listener was called
    arg      |-> FALSE,   \* toggleCapture: message.isActive
    settings |-> FALSE,   \* idle listener: settings.isActive as read
    notify   |-> "none",  \* status being broadcast by sendCaptureStatus
    after    |-> "done",  \* what follows the broadcast
    t        |-> 0,       \* const now = Date.now() of the running rate-limit call
    ws       |-> NoWs,    \* workspace being captured / submitted
    uid      |-> "",      \* userId argument of submitContext
    health   |-> "none",  \* submitWorkspaceToAWS: health.status as checkHealth gave it
    reason   |-> "none",  \* captureReason argument of submitContext
    body     |-> [event |-> "none"],
                          \* submitContext: contextData, the body of the POST
    wr       |-> NoRl,    \* value of the pending rate-limit write
    wq       |-> <<>>,    \* value of the pending failed_submissions write
    list     |-> <<>>,    \* retryFailedSubmissions: failedSubmissions
    i        |-> 0,       \* retryFailedSubmissions: position in the for loop
    okIds    |-> {},      \* retryFailedSubmissions: successfulRetries
    wins     |-> <<>>,    \* captureWorkspace: windows
    w        |-> 0,       \* captureWorkspace: position in the loop over windows
    k        |-> 0,       \* captureWorkspace: position in the loop over window.tabs
    cur      |-> NoWindowSnapshot,  \* captureWorkspace: windowSnapshot
    res      |-> [kind |-> "none", by |-> "none", insights |-> <<>>],
                          \* what the task's last getInsights / getCachedInsights
                          \* call gave: kind "value" (returned) or "throw", by
                          \* the "live" fetch, the "fallback" or the "cached" read
    del      |-> [snaps |-> {}, imgs |-> {}],
                          \* cleanupExpiredSnapshots: toBeDeleted
    ret      |-> 0,       \* retentionDays as initializeExtension read it;
                          \* history: retentionDays when the sweep started
    thrown   |-> FALSE,   \* history: the listener run ended with the error that
                          \* captureWorkspace rethrew
    log      |-> <<>>,    \* history: per sequential submitContext call, the
                          \* Date.now() of its rate check (at), the rule that
                          \* decided (rule) and the Date.now() recorded as
                          \* last_aws_submission (rec, 0 if denied)
    timers   |-> <<>>,    \* history: the delays of the setTimeout calls that
                          \* schedule fetchAnalyzedContextAndInsights
    rets     |-> <<>>     \* what the task's completed submitContext calls
                          \* returned, in order: "id" (a correlation id) or "null"
]

\* JavaScript `x || d` on numbers: undefined and 0 both give d
OrDefault(x, d) == IF x = 0 THEN d ELSE x

\* ------------------------------------------------------ rate limiter
\* a variant of shouldSubmitContext that also denies a submission exactly
\* MIN_INTERVAL_MS after the last one
ShouldSubmitRuleStrict(data, t) ==
    LET lastSubmission == OrDefault(data.last_aws_submission, 0)
        minuteStart == OrDefault(data.aws_minute_start, t)
        hourStart == OrDefault(data.aws_hour_start, t)
        requestsThisMinute ==
            IF t - minuteStart >= MINUTE_MS THEN 0
            ELSE OrDefault(data.aws_requests_minute, 0)
        requestsThisHour ==
            IF t - hourStart >= HOUR_MS THEN 0
            ELSE OrDefault(data.aws_requests_hour, 0)
    IN  IF t - lastSubmission <= MIN_INTERVAL_MS THEN "interval"
        ELSE IF requestsThisMinute >= MAX_REQUESTS_PER_MINUTE THEN "minute"
        ELSE IF requestsThisHour >= MAX_REQUESTS_PER_HOUR THEN "hour"
        ELSE "ok"

\* a variant of shouldSubmitContext that tests the caps before the interval
ShouldSubmitRuleCapsFirst(data, t) ==
    LET lastSubmission == OrDefault(data.last_aws_submission, 0)
        minuteStart == OrDefault(data.aws_minute_start, t)
        hourStart == OrDefault(data.aws_hour_start, t)
        requestsThisMinute ==
            IF t - minuteStart >= MINUTE_MS THEN 0
            ELSE OrDefault(data.aws_requests_minute, 0)
        requestsThisHour ==
            IF t - hourStart >= HOUR_MS THEN 0
            ELSE OrDefault(data.aws_requests_hour, 0)
    IN  IF requestsThisMinute >= MAX_REQUESTS_PER_MINUTE THEN "minute"
        ELSE IF requestsThisHour >= MAX_REQUESTS_PER_HOUR THEN "hour"
        ELSE IF t - lastSubmission < MIN_INTERVAL_MS THEN "interval"
        ELSE "ok"

\* shouldSubmitContext, from the keys it read (data) and its Date.now() (t):
\* the rule that denies, or "ok"
ShouldSubmitRule(data, t) ==
    LET lastSubmission == OrDefault(data.last_aws_submission, 0)
        minuteStart == OrDefault(data.aws_minute_start, t)
        hourStart == OrDefault(data.aws_hour_start, t)
        requestsThisMinute ==
            IF t - minuteStart >= MINUTE_MS THEN 0
            ELSE OrDefault(data.aws_requests_minute, 0)
        requestsThisHour ==
            IF t - hourStart >= HOUR_MS THEN 0
            ELSE OrDefault(data.aws_requests_hour, 0)
    IN  IF t - lastSubmission < MIN_INTERVAL_MS THEN "interval"
        ELSE IF requestsThisMinute >= MAX_REQUESTS_PER_MINUTE THEN "minute"
        ELSE IF requestsThisHour >= MAX_REQUESTS_PER_HOUR THEN "hour"
        ELSE "ok"

\* the boolean shouldSubmitContext returns when its read succeeds
ShouldSubmit(data, t) == ShouldSubmitRule(data, t) = "ok"

\* a variant of updateRateLimitCounters that keeps counting in a window that
\* has elapsed
UpdatedCountersNoRoll(data, t) ==
    LET minuteStart == OrDefault(data.aws_minute_start, t)
        hourStart == OrDefault(data.aws_hour_start, t)
    IN  [aws_requests_minute |-> OrDefault(data.aws_requests_minute, 0) + 1,
         aws_requests_hour   |-> OrDefault(data.aws_requests_hour, 0) + 1,
         aws_minute_start    |-> IF t - minuteStart >= MINUTE_MS THEN t ELSE minuteStart,
         aws_hour_start      |-> IF t - hourStart >= HOUR_MS THEN t ELSE hourStart,
         last_aws_submission |-> t]

\* updateRateLimitCounters: the object it writes, from the keys it read and
\* its Date.now()
UpdatedCounters(data, t) ==
    LET minuteStart == OrDefault(data.aws_minute_start, t)
        hourStart == OrDefault(data.aws_hour_start, t)
        requestsThisMinute ==
            IF t - minuteStart >= MINUTE_MS THEN 0
            ELSE OrDefault(data.aws_requests_minute, 0)
        requestsThisHour ==
            IF t - hourStart >= HOUR_MS THEN 0
            ELSE OrDefault(data.aws_requests_hour, 0)
    IN  [aws_requests_minute |-> requestsThisMinute + 1,
         aws_requests_hour   |-> requestsThisHour + 1,
         aws_minute_start    |-> IF t - minuteStart >= MINUTE_MS THEN t ELSE minuteStart,
         aws_hour_start      |-> IF t - hourStart >= HOUR_MS THEN t ELSE hourStart,
         last_aws_submission |-> t]

\* -------------------------------------------------------- retry queue
\* a variant of the truncation that keeps the first n elements (slice(0, n))
SliceFirst(s, n) ==
    IF Len(s) <= n THEN s ELSE SubSeq(s, 1, n)

\* Array.prototype.slice(-n)
SliceLast(s, n) ==
    IF Len(s) <= n THEN s ELSE SubSeq(s, Len(s) - n + 1, Len(s))

\* a variant of storeFailedSubmission that pushes the entry twice
StoredFailedTwice(list, entry) ==
    IF Len(list) + 2 <= QUEUE_KEEP THEN list \o <<entry, entry>>
    ELSE SubSeq(list \o <<entry, entry>>, Len(list) + 3 - QUEUE_KEEP, Len(list) + 2)

\* storeFailedSubmission: the list it writes, from the list it read
StoredFailed(list, entry) == SliceLast(Append(list, entry), QUEUE_KEEP)

\* a variant of the filter that keeps the resubmitted entries instead
RetriedFailed(list, okIds) == SelectSeq(list, LAMBDA e : e.id \in okIds)

\* failedSubmissions.filter(s => !successfulRetries.includes(s.id))
RECURSIVE RemainingFailed(_, _)
RemainingFailed(list, okIds) ==
    IF list = <<>> THEN <<>>
    ELSE LET rest == RemainingFailed(Tail(list), okIds)
         IN  IF Head(list).id \in okIds THEN rest ELSE <<Head(list)>> \o rest

\* ------------------------------------------------------ control flow
\* a persisted-store or browser-API call may fail while the budget lasts
Outcomes == IF fails < MaxStoreFails THEN {TRUE, FALSE} ELSE {TRUE}
Failed(ok) == fails' = IF ok THEN fails ELSE fails + 1

\* the task is suspended at await `at` with locals l
Goto(p, at, l) ==
    /\ pc' = [pc EXCEPT ![p] = at]
    /\ loc' = [loc EXCEPT ![p] = l]

\* the listener run ends; what its submitContext call returned stays on record
Finish(p, rets) == Goto(p, "free", [LocInit EXCEPT !.rets = rets])
Done(p) == Finish(p, loc[p].rets)

\* captureWorkspace sets isCapturing = true and awaits chrome.windows.getAll
EnterCapture(p, l) ==
    /\ isCapturing' = TRUE
    /\ Goto(p, "cw_getAll", l)

\* captureWorkspace resets isCapturing and returns (or rethrows) to the listener
EndCapture(p) ==
    /\ isCapturing' = FALSE
    /\ Done(p)

\* a variant of captureWorkspace's catch that rethrows without resetting
\* isCapturing
RethrowKeepsFlag(p) ==
    /\ UNCHANGED isCapturing
    /\ Goto(p, "free", [LocInit EXCEPT !.rets = loc[p].rets, !.thrown = TRUE])

\* captureWorkspace's catch: isCapturing = false; throw error. The listener
\* awaiting captureWorkspace has no handler: its run ends with the error
Rethrow(p) ==
    /\ isCapturing' = FALSE
    /\ Goto(p, "free", [LocInit EXCEPT !.rets = loc[p].rets, !.thrown = TRUE])

\* submitWorkspaceToAWS after the processing status: setTimeout schedules
\* fetchAnalyzedContextAndInsights, and captureWorkspace ends
ScheduleFetch(p) ==
    /\ isCapturing' = FALSE
    /\ Goto(p, "free", [LocInit EXCEPT !.rets = loc[p].rets,
                                       !.timers = Append(loc[p].timers, FETCH_DELAY_MS)])

\* updateExtensionBadge(..) then sendCaptureStatus(s), then `after`
Notify(p, l, s, after) ==
    Goto(p, "badge", [l EXCEPT !.notify = s, !.after = after])

\* submitContext(ws, uid, reason) is entered: shouldSubmitContext takes
\* Date.now() and awaits the read of the rate-limit keys
EnterSubmit(p, l, w, u, r) ==
    Goto(p, "ssc_get", [l EXCEPT !.t = now, !.ws = w, !.uid = u, !.reason = r])

\* retryFailedSubmissions: the for loop at position i (1-based), then the
\* filter and the write of remainingFailed
DrainLoop(p, l, i) ==
    IF i <= Len(l.list)
    THEN EnterSubmit(p, [l EXCEPT !.i = i], l.list[i].workspace, l.list[i].userId,
                     l.list[i].captureReason)
    ELSE Goto(p, "d_set", [l EXCEPT !.i = i,
                                    !.wq = RemainingFailed(l.list, l.okIds)])

\* submitContext returns contextId (TRUE: a correlation id, FALSE: null) to
\* its caller: submitWorkspaceToAWS in a listener, the for loop in a drain
Return(p, l, contextId) ==
    IF p \in Handlers
    THEN IF contextId
         THEN /\ Notify(p, [l EXCEPT !.rets = Append(@, "id")], "processing", "end")
              /\ UNCHANGED isCapturing
         ELSE /\ isCapturing' = FALSE
              /\ Finish(p, Append(l.rets, "null"))
    ELSE /\ DrainLoop(p, IF contextId
                         THEN [l EXCEPT !.rets = Append(@, "id"),
                                        !.okIds = @ \cup {l.list[l.i].id}]
                         ELSE [l EXCEPT !.rets = Append(@, "null")],
                      l.i + 1)
         /\ UNCHANGED isCapturing

\* the drains whose run a queue write by task p falls into
Interleaved(p) ==
    {d \in (Drains \cup Starters) \ {p} :
        pc[d] \notin {"free", "d_get", "ie_get", "ie_set", "ie_badge", "ie_offline"}}

\* an event is handled in the first listener task that is not running
Free(h) == pc[h] = "free" /\ \A g \in Handlers : g < h => pc[g] # "free"

\* ------------------------------------------------- trigger listeners
\* chrome.idle.onStateChanged fires: the listener awaits the settings read
IdleStateChanged(h, newState) ==
    /\ Free(h)
    /\ Goto(h, "idle_get", [LocInit EXCEPT !.newState = newState, !.busy = isCapturing])
    /\ UNCHANGED <<now, isCapturing, isActive, userId, rl, queue, snaps, status,
                   posts, nextId, ticks, fails, foreign, windows, imgs, cache, retentionDays>>

\* a variant of the listener that broadcasts status = capturing and does not
\* call captureWorkspace
IdleSettingsNoCapture(h) ==
    /\ pc[h] = "idle_get"
    /\ LET l == [loc[h] EXCEPT !.settings = isActive]
       IN  IF l.newState = "idle" /\ ~isCapturing /\ l.settings
           THEN Notify(h, l, "capturing", "done")
           ELSE IF l.newState = "active"
           THEN IF l.settings THEN Notify(h, l, "null", "done") ELSE Done(h)
           ELSE IF ~l.settings
           THEN Notify(h, l, "paused", "done")
           ELSE Done(h)
    /\ UNCHANGED <<now, isCapturing, isActive, userId, rl, queue, snaps, status,
                   posts, nextId, ticks, fails, foreign, windows, imgs, cache, retentionDays>>

\* the settings read completes: the listener's if / else if / else if
IdleSettings(h) ==
    /\ pc[h] = "idle_get"
    /\ LET l == [loc[h] EXCEPT !.settings = isActive]
       IN  IF l.newState = "idle" /\ ~isCapturing /\ l.settings
           THEN Notify(h, l, "capturing", "capture")
           ELSE IF l.newState = "active"
           THEN IF l.settings THEN Notify(h, l, "null", "done") ELSE Done(h)
           ELSE IF ~l.settings
           THEN Notify(h, l, "paused", "done")
           ELSE Done(h)
    /\ UNCHANGED <<now, isCapturing, isActive, userId, rl, queue, snaps, status,
                   posts, nextId, ticks, fails, foreign, windows, imgs, cache, retentionDays>>

\* updateExtensionBadge completes: sendCaptureStatus sends the message
Badge(h) ==
    /\ pc[h] = "badge"
    /\ status' = loc[h].notify
    /\ Goto(h, "status", loc[h])
    /\ UNCHANGED <<now, isCapturing, isActive, userId, rl, queue, snaps,
                   posts, nextId, ticks, fails, foreign, windows, imgs, cache, retentionDays>>

\* sendCaptureStatus completes: the idle listener calls captureWorkspace,
\* submitWorkspaceToAWS returns into captureWorkspace's end, the others end
Status(h) ==
    /\ pc[h] = "status"
    /\ CASE loc[h].after = "capture" -> EnterCapture(h, loc[h])
         [] loc[h].after = "end"     -> ScheduleFetch(h)
         [] OTHER                    -> Done(h) /\ UNCHANGED isCapturing
    /\ UNCHANGED <<now, isActive, userId, rl, queue, snaps, status,
                   posts, nextId, ticks, fails, foreign, windows, imgs, cache, retentionDays>>

\* onMessage, action toggleCapture: clears the flag, awaits the settings write
ToggleCapture(h, a) ==
    /\ Free(h)
    /\ isCapturing' = FALSE
    /\ Goto(h, "tg_set", [LocInit EXCEPT !.arg = a])
    /\ UNCHANGED <<now, isActive, userId, rl, queue, snaps, status,
                   posts, nextId, ticks, fails, foreign, windows, imgs, cache, retentionDays>>

\* the settings write completes: badge, then status null or paused
ToggleSet(h) ==
    /\ pc[h] = "tg_set"
    /\ isActive' = loc[h].arg
    /\ Notify(h, loc[h], IF loc[h].arg THEN "null" ELSE "paused", "done")
    /\ UNCHANGED <<now, isCapturing, userId, rl, queue, snaps, status,
                   posts, nextId, ticks, fails, foreign, windows, imgs, cache, retentionDays>>

\* a variant of the manualCapture case that calls captureWorkspace without
\* testing isCapturing
ManualCaptureUnguarded(h) ==
    /\ Free(h)
    /\ EnterCapture(h, LocInit)
    /\ UNCHANGED <<now, isActive, userId, rl, queue, snaps, status,
                   posts, nextId, ticks, fails, foreign, windows, imgs, cache, retentionDays>>

\* onMessage, action manualCapture: captureWorkspace unless isCapturing
\* (a message that arrives while isCapturing changes nothing)
ManualCapture(h) ==
    /\ Free(h)
    /\ ~isCapturing
    /\ EnterCapture(h, LocInit)
    /\ UNCHANGED <<now, isActive, userId, rl, queue, snaps, status,
                   posts, nextId, ticks, fails, foreign, windows, imgs, cache, retentionDays>>

\* ---------------------------------------------------- captureWorkspace
\* A tab of the browser is [id, scheme, active, page]: page is what
\* capturePageSnapshot gives when injected into it, "shot" (a snapshot whose
\* data.screenshot is null: the Google Workspace types), "plain" (a snapshot
\* without a screenshot field), "none" (no result) or "throw" (executeScript
\* rejects). A window is [id, tabs, shot]: shot is what captureVisibleTab
\* gives for it, "image", "empty" or "throw".

\* !tab.id || !tab.url?.startsWith("http") is false
Capturable(tab) == tab.id # 0 /\ tab.scheme \in {"http", "https"}

\* the screenshot field of a TabSnapshot's data: absent, null, or the key
\* img_<ts>_<tab> of the stored image
NoScreenshot == [kind |-> "none", ts |-> 0, tab |-> 0]
NullScreenshot == [kind |-> "null", ts |-> 0, tab |-> 0]
ImgKey(ts, tab) == [kind |-> "img", ts |-> ts, tab |-> tab]

\* windowSnapshot.tabs.find((tab) => tab.isActive): its position, 0 if none
ActiveTab(tabs) ==
    IF \E n \in DOMAIN tabs : tabs[n].isActive
    THEN CHOOSE n \in DOMAIN tabs :
             tabs[n].isActive /\ \A q \in 1..(n - 1) : ~tabs[q].isActive
    ELSE 0

\* the end of the window loop body: if (windowSnapshot.tabs.length)
\* workspace.windows.push(windowSnapshot)
CloseWindow(l) ==
    [l EXCEPT !.ws.windows = IF l.cur.tabs # <<>> THEN Append(@, l.cur) ELSE @,
              !.w = l.w + 1]

\* the code that runs from a point of the two loops up to the next await:
\* the position (pc and locals) of that await
RECURSIVE ScanWindows(_), ScanTabs(_)
\* for (const window of windows), at position l.w
ScanWindows(l) ==
    IF l.w > Len(l.wins) THEN <<"cw_persist", l>>
    ELSE IF l.wins[l.w].tabs = <<>> THEN ScanWindows([l EXCEPT !.w = l.w + 1])
    ELSE ScanTabs([l EXCEPT !.k = 1,
                            !.cur = [windowId |-> l.wins[l.w].id,
                                     activeTabId |-> 0 - 1, tabs |-> <<>>]])

\* for (const tab of window.tabs), at position l.k; after the loop, the
\* screenshot of the active tab if its data.screenshot === null
ScanTabs(l) ==
    IF l.k <= Len(l.wins[l.w].tabs)
    THEN IF Capturable(l.wins[l.w].tabs[l.k]) THEN <<"cw_tabs", l>>
         ELSE ScanTabs([l EXCEPT !.k = l.k + 1])
    ELSE LET a == ActiveTab(l.cur.tabs)
         IN  IF a # 0 /\ l.cur.tabs[a].screenshot = NullScreenshot
             THEN <<"cw_shot", l>>
             ELSE ScanWindows(CloseWindow(l))

\* task h goes on to the await at position at = <<pc, locals>>
Resume(h, at) == Goto(h, at[1], at[2])

\* chrome.windows.getAll completes; a throw goes to the catch, which resets
\* the flag and rethrows
CwGetAll(h, ok) ==
    /\ pc[h] = "cw_getAll"
    /\ Failed(ok)
    /\ IF ok
       THEN /\ Resume(h, ScanWindows([loc[h] EXCEPT
                             !.ws = [timestamp |-> now, windows |-> <<>>],
                             !.wins = windows, !.w = 1]))
            /\ UNCHANGED isCapturing
       ELSE Rethrow(h)
    /\ UNCHANGED <<now, isActive, userId, rl, queue, snaps, status,
                   posts, nextId, ticks, foreign, windows, imgs, cache, retentionDays>>

\* a variant of the tab loop body that keeps an entry for every capturable tab
TabSnapshotAlways(l) ==
    LET tab == l.wins[l.w].tabs[l.k]
    IN  [l EXCEPT !.cur.tabs = Append(@, [tabId |-> tab.id, isActive |-> tab.active,
                                           screenshot |-> NoScreenshot]),
                  !.k = l.k + 1]

\* the tab loop body after executeScript: a result is pushed as a
\* TabSnapshot (and marks the active tab), no result or a throw is logged
TabSnapshot(l) ==
    LET tab == l.wins[l.w].tabs[l.k]
    IN  IF tab.page \in {"shot", "plain"}
        THEN [l EXCEPT !.cur.activeTabId = IF tab.active THEN tab.id ELSE @,
                       !.cur.tabs = Append(@, [tabId |-> tab.id, isActive |-> tab.active,
                                                screenshot |-> IF tab.page = "shot"
                                                               THEN NullScreenshot
                                                               ELSE NoScreenshot]),
                       !.k = l.k + 1]
        ELSE [l EXCEPT !.k = l.k + 1]

\* chrome.scripting.executeScript on the tab at (w, k) completes
CwTabs(h) ==
    /\ pc[h] = "cw_tabs"
    /\ Resume(h, ScanTabs(TabSnapshot(loc[h])))
    /\ UNCHANGED <<now, isCapturing, isActive, userId, rl, queue, snaps, status,
                   posts, nextId, ticks, fails, foreign, windows, imgs, cache, retentionDays>>

\* chrome.tabs.captureVisibleTab completes: an image is stored under
\* img_<workspace.timestamp>_<tabId>; no image or a throw is logged
CwShot(h) ==
    /\ pc[h] = "cw_shot"
    /\ IF loc[h].wins[loc[h].w].shot = "image"
       THEN Goto(h, "cw_img", loc[h])
       ELSE Resume(h, ScanWindows(CloseWindow(loc[h])))
    /\ UNCHANGED <<now, isCapturing, isActive, userId, rl, queue, snaps, status,
                   posts, nextId, ticks, fails, foreign, windows, imgs, cache, retentionDays>>

\* a variant of the screenshot block that names the key in the active tab
\* whether or not the image was stored
CwImageKeepsKey(h, ok) ==
    /\ pc[h] = "cw_img"
    /\ Failed(ok)
    /\ LET l == loc[h]
           a == ActiveTab(l.cur.tabs)
           key == ImgKey(l.ws.timestamp, l.cur.tabs[a].tabId)
       IN  /\ imgs' = IF ok THEN imgs \cup {key} ELSE imgs
           /\ Resume(h, ScanWindows(CloseWindow(
                            [l EXCEPT !.cur.tabs[a].screenshot = key])))
    /\ UNCHANGED <<now, isCapturing, isActive, userId, rl, queue, snaps, status,
                   posts, nextId, ticks, foreign, windows, cache, retentionDays>>

\* the write of the image completes: the active tab's data.screenshot
\* becomes the key; a failed write is caught and logged
CwImage(h, ok) ==
    /\ pc[h] = "cw_img"
    /\ Failed(ok)
    /\ LET l == loc[h]
           a == ActiveTab(l.cur.tabs)
           key == ImgKey(l.ws.timestamp, l.cur.tabs[a].tabId)
       IN  IF ok
           THEN /\ imgs' = imgs \cup {key}
                /\ Resume(h, ScanWindows(CloseWindow(
                                 [l EXCEPT !.cur.tabs[a].screenshot = key])))
           ELSE /\ imgs' = imgs
                /\ Resume(h, ScanWindows(CloseWindow(l)))
    /\ UNCHANGED <<now, isCapturing, isActive, userId, rl, queue, snaps, status,
                   posts, nextId, ticks, foreign, windows, cache, retentionDays>>

\* chrome.storage.local.set({[key]: value}) on the workspace_ keys
PutSnapshot(store, ws) == {x \in store : x.timestamp # ws.timestamp} \cup {ws}

\* a variant of captureWorkspace that goes on to the submission without
\* having written the snapshot
CwPersistSkips(h, ok) ==
    /\ pc[h] = "cw_persist"
    /\ Failed(ok)
    /\ IF ok
       THEN /\ snaps' = snaps
            /\ Goto(h, "w_ssc", [loc[h] EXCEPT !.t = now])
            /\ UNCHANGED isCapturing
       ELSE Rethrow(h) /\ UNCHANGED snaps
    /\ UNCHANGED <<now, isActive, userId, rl, queue, status, posts, nextId, ticks,
                   foreign, windows, imgs, cache, retentionDays>>

\* the write of workspace_<timestamp> completes: submitWorkspaceToAWS starts
\* with its own shouldSubmitContext; a throw goes to captureWorkspace's catch
CwPersist(h, ok) ==
    /\ pc[h] = "cw_persist"
    /\ Failed(ok)
    /\ IF ok
       THEN /\ snaps' = PutSnapshot(snaps, loc[h].ws)
            /\ Goto(h, "w_ssc", [loc[h] EXCEPT !.t = now])
            /\ UNCHANGED isCapturing
       ELSE Rethrow(h) /\ UNCHANGED snaps
    /\ UNCHANGED <<now, isActive, userId, rl, queue, status, posts, nextId, ticks,
                   foreign, windows, imgs, cache, retentionDays>>

\* -------------------------------------------------- submitWorkspaceToAWS
\* its rate check completes (a failed read is a denial); denied: it reads
\* the keys again for the log
WorkspaceRateCheck(h, ok) ==
    /\ pc[h] = "w_ssc"
    /\ Failed(ok)
    /\ Goto(h, IF ok /\ ShouldSubmit(rl, loc[h].t) THEN "w_uid" ELSE "w_details", loc[h])
    /\ UNCHANGED <<now, isCapturing, isActive, userId, rl, queue, snaps, status,
                   posts, nextId, ticks, foreign, windows, imgs, cache, retentionDays>>

\* the read for the log completes (a failure is caught and logged):
\* submitWorkspaceToAWS returns
WorkspaceRateDetails(h, ok) ==
    /\ pc[h] = "w_details"
    /\ Failed(ok)
    /\ EndCapture(h)
    /\ UNCHANGED <<now, isActive, userId, rl, queue, snaps, status,
                   posts, nextId, ticks, foreign, windows, imgs, cache, retentionDays>>

\* the userId read completes: no userId, no submission; else checkHealth
WorkspaceUserId(h) ==
    /\ pc[h] = "w_uid"
    /\ IF userId = ""
       THEN EndCapture(h)
       ELSE Goto(h, "w_health", [loc[h] EXCEPT !.uid = userId]) /\ UNCHANGED isCapturing
    /\ UNCHANGED <<now, isActive, userId, rl, queue, snaps, status,
                   posts, nextId, ticks, fails, foreign, windows, imgs, cache, retentionDays>>

\* a variant of the health step that queues the snapshot for retry when the
\* API is not healthy
WorkspaceHealthQueues(h, healthy) ==
    /\ pc[h] = "w_health"
    /\ IF healthy
       THEN EnterSubmit(h, [loc[h] EXCEPT !.health = "healthy"],
                        loc[h].ws, loc[h].uid, "idle")
       ELSE Goto(h, "sfs_get", [loc[h] EXCEPT !.reason = "idle"])
    /\ UNCHANGED <<now, isCapturing, isActive, userId, rl, queue, snaps, status,
                   posts, nextId, ticks, fails, foreign, windows, imgs, cache, retentionDays>>

\* GET /health completes: healthy, or not (null or unhealthy)
WorkspaceHealth(h, healthy) ==
    /\ pc[h] = "w_health"
    /\ IF healthy
       THEN /\ EnterSubmit(h, [loc[h] EXCEPT !.health = "healthy"],
                            loc[h].ws, loc[h].uid, "idle")
            /\ UNCHANGED isCapturing
       ELSE EndCapture(h)
    /\ UNCHANGED <<now, isActive, userId, rl, queue, snaps, status,
                   posts, nextId, ticks, fails, foreign, windows, imgs, cache, retentionDays>>

\* --------------------------------------------------------- submitContext
\* workspace.windows.flatMap((window) => window.tabs.map(..)): one entry per
\* TabSnapshot, in order
RECURSIVE FlatTabs(_)
FlatTabs(wins) ==
    IF wins = <<>> THEN <<>>
    ELSE [n \in DOMAIN Head(wins).tabs |-> [tabId |-> Head(wins).tabs[n].tabId]]
         \o FlatTabs(Tail(wins))

\* the screenshot keys of the workspace's tabs, in order
RECURSIVE FlatScreenshots(_)
FlatScreenshots(wins) ==
    IF wins = <<>> THEN <<>>
    ELSE SelectSeq([n \in DOMAIN Head(wins).tabs |-> Head(wins).tabs[n].screenshot],
                   LAMBDA x : x.kind = "img")
         \o FlatScreenshots(Tail(wins))

\* a variant of contextData that lists the workspace's screenshots
ContextDataWithScreenshots(workspace, uid, captureReason) ==
    [user_id     |-> uid,
     event       |-> IF captureReason = "manual" THEN "manual_capture" ELSE "idle_capture",
     tabs        |-> FlatTabs(workspace.windows),
     screenshots |-> FlatScreenshots(workspace.windows),
     signals     |-> [idle_sec |-> IF captureReason = "idle" THEN 15 ELSE 0],
     privacy     |-> [redacted |-> TRUE]]

\* contextData, the body submitContext sends
ContextData(workspace, uid, captureReason) ==
    [user_id     |-> uid,
     event       |-> IF captureReason = "manual" THEN "manual_capture" ELSE "idle_capture",
     tabs        |-> FlatTabs(workspace.windows),
     screenshots |-> <<>>,
     signals     |-> [idle_sec |-> IF captureReason = "idle" THEN 15 ELSE 0],
     privacy     |-> [redacted |-> TRUE]]

\* submitContext sends the POST and awaits the response
SendPost(p) ==
    Goto(p, "post", [loc[p] EXCEPT !.body = ContextData(loc[p].ws, loc[p].uid,
                                                        loc[p].reason)])

\* a variant of the rate check that queues a denied submission for retry
SubmitRateCheckQueues(p, ok) ==
    /\ pc[p] = "ssc_get"
    /\ Failed(ok)
    /\ IF ok /\ ShouldSubmit(rl, loc[p].t)
       THEN /\ Len(SelectSeq(posts, LAMBDA t : t >= StartTime)) < MaxPosts
            /\ posts' = Append(posts, now)
            /\ SendPost(p)
       ELSE /\ Goto(p, "sfs_get", loc[p])
            /\ UNCHANGED posts
    /\ UNCHANGED <<now, isCapturing, isActive, userId, rl, queue, snaps, status,
                   nextId, ticks, foreign, windows, imgs, cache, retentionDays>>

\* a variant of the rate check that admits when its read fails (the defaults
\* of absent keys are used)
SubmitRateCheckOpen(p, ok) ==
    /\ pc[p] = "ssc_get"
    /\ Failed(ok)
    /\ IF ShouldSubmit(IF ok THEN rl ELSE NoRl, loc[p].t)
       THEN /\ Len(SelectSeq(posts, LAMBDA t : t >= StartTime)) < MaxPosts
            /\ posts' = Append(posts, now)
            /\ SendPost(p)
            /\ UNCHANGED isCapturing
       ELSE /\ Return(p, loc[p], FALSE)
            /\ UNCHANGED posts
    /\ UNCHANGED <<now, isActive, userId, rl, queue, snaps, status, nextId, ticks, foreign, windows, imgs, cache, retentionDays>>

\* a variant of the rate check that writes the counters it has reset
SubmitRateCheckPersists(p, ok) ==
    /\ pc[p] = "ssc_get"
    /\ Failed(ok)
    /\ rl' = IF ok
             THEN [rl EXCEPT
                     !.aws_requests_minute =
                         IF loc[p].t - OrDefault(rl.aws_minute_start, loc[p].t) >= MINUTE_MS
                         THEN 0 ELSE @,
                     !.aws_requests_hour =
                         IF loc[p].t - OrDefault(rl.aws_hour_start, loc[p].t) >= HOUR_MS
                         THEN 0 ELSE @]
             ELSE rl
    /\ IF ok /\ ShouldSubmit(rl, loc[p].t)
       THEN /\ Len(SelectSeq(posts, LAMBDA t : t >= StartTime)) < MaxPosts
            /\ posts' = Append(posts, now)
            /\ SendPost(p)
            /\ UNCHANGED isCapturing
       ELSE /\ Return(p, loc[p], FALSE)
            /\ UNCHANGED posts
    /\ UNCHANGED <<now, isActive, userId, queue, snaps, status, nextId, ticks, foreign, windows, imgs, cache, retentionDays>>

\* shouldSubmitContext's read completes (a failed read is a denial): denied,
\* submitContext returns null; admitted, it sends POST /context
SubmitRateCheck(p, ok) ==
    /\ pc[p] = "ssc_get"
    /\ Failed(ok)
    /\ IF ok /\ ShouldSubmit(rl, loc[p].t)
       THEN /\ Len(SelectSeq(posts, LAMBDA t : t >= StartTime)) < MaxPosts
            /\ posts' = Append(posts, now)
            /\ SendPost(p)
            /\ UNCHANGED isCapturing
       ELSE /\ Return(p, loc[p], FALSE)
            /\ UNCHANGED posts
    /\ UNCHANGED <<now, isActive, userId, rl, queue, snaps, status, nextId, ticks, foreign, windows, imgs, cache, retentionDays>>

\* the POST completes. 2xx with a readable body: updateRateLimitCounters takes
\* Date.now() and reads the keys. A network error, a non-2xx status or an
\* unreadable body throws into the catch: storeFailedSubmission reads the queue
SubmitPost(p, success) ==
    /\ pc[p] = "post"
    /\ IF success
       THEN Goto(p, "urc_get", [loc[p] EXCEPT !.t = now])
       ELSE Goto(p, "sfs_get", loc[p])
    /\ UNCHANGED <<now, isCapturing, isActive, userId, rl, queue, snaps, status,
                   posts, nextId, ticks, fails, foreign, windows, imgs, cache, retentionDays>>

\* updateRateLimitCounters' read completes: it writes the five keys; a failed
\* read is caught and logged, and submitContext returns the correlation id
CountersRead(p, ok) ==
    /\ pc[p] = "urc_get"
    /\ Failed(ok)
    /\ IF ok
       THEN /\ Goto(p, "urc_set", [loc[p] EXCEPT !.wr = UpdatedCounters(rl, loc[p].t)])
            /\ UNCHANGED isCapturing
       ELSE Return(p, loc[p], TRUE)
    /\ UNCHANGED <<now, isActive, userId, rl, queue, snaps, status,
                   posts, nextId, ticks, foreign, windows, imgs, cache, retentionDays>>

\* updateRateLimitCounters' write completes (a failed write is caught and
\* logged): submitContext returns the correlation id
CountersWrite(p, ok) ==
    /\ pc[p] = "urc_set"
    /\ Failed(ok)
    /\ rl' = IF ok THEN loc[p].wr ELSE rl
    /\ Return(p, loc[p], TRUE)
    /\ UNCHANGED <<now, isActive, userId, queue, snaps, status, posts, nextId, ticks, foreign, windows, imgs, cache, retentionDays>>

\* the FailedSubmission storeFailedSubmission pushes
FailedSubmission(l, id) ==
    [id |-> id, workspace |-> l.ws, userId |-> l.uid, captureReason |-> l.reason,
     timestamp |-> now, retryCount |-> 0]

\* storeFailedSubmission's read completes: push, slice(-10), write; a failed
\* read is caught and logged, and submitContext returns null
FailedRead(p, ok) ==
    /\ pc[p] = "sfs_get"
    /\ Failed(ok)
    /\ IF ok
       THEN /\ nextId < MaxIds
            /\ nextId' = nextId + 1
            /\ Goto(p, "sfs_set",
                    [loc[p] EXCEPT !.wq = StoredFailed(queue,
                                              FailedSubmission(loc[p], nextId + 1))])
            /\ UNCHANGED isCapturing
       ELSE /\ Return(p, loc[p], FALSE)
            /\ UNCHANGED nextId
    /\ UNCHANGED <<now, isActive, userId, rl, queue, snaps, status, posts, ticks, foreign, windows, imgs, cache, retentionDays>>

\* storeFailedSubmission's write completes (a failed write is caught and
\* logged): submitContext returns null
FailedWrite(p, ok) ==
    /\ pc[p] = "sfs_set"
    /\ Failed(ok)
    /\ queue' = IF ok THEN loc[p].wq ELSE queue
    /\ foreign' = IF ok THEN foreign \cup Interleaved(p) ELSE foreign
    /\ Return(p, loc[p], FALSE)
    /\ UNCHANGED <<now, isActive, userId, rl, snaps, status, posts, nextId, ticks,
                   windows, imgs, cache, retentionDays>>

\* a whole submitContext call of task p with nothing interleaved and no
\* failure: the rate check at Date.now(); admitted, the POST succeeds after
\* `latency` and updateRateLimitCounters records the submission at the
\* Date.now() it then takes
SubmitContext(p, latency) ==
    /\ pc[p] = "sc_call"
    /\ LET t == now
           rule == ShouldSubmitRule(rl, t)
       IN  IF rule = "ok"
           THEN /\ posts' = Append(posts, t)
                /\ now' = t + latency
                /\ rl' = UpdatedCounters(rl, t + latency)
                /\ Goto(p, "free",
                        [loc[p] EXCEPT !.rets = Append(@, "id"),
                                       !.log = Append(@, [at |-> t, rule |-> rule,
                                                          rec |-> t + latency])])
           ELSE /\ latency = 0
                /\ UNCHANGED <<posts, now, rl>>
                /\ Goto(p, "free",
                        [loc[p] EXCEPT !.rets = Append(@, "null"),
                                       !.log = Append(@, [at |-> t, rule |-> rule,
                                                          rec |-> 0])])
    /\ UNCHANGED <<isCapturing, isActive, userId, queue, snaps, status,
                   nextId, ticks, fails, foreign, windows, imgs, cache, retentionDays>>

\* the caller lets `gap` pass and makes its next call
Wait(p, gap) ==
    /\ pc[p] = "free"
    /\ Len(loc[p].log) < MaxCalls
    /\ now + gap - StartTime <= MaxElapsedMs
    /\ now' = now + gap
    /\ Goto(p, "sc_call", loc[p])
    /\ UNCHANGED <<isCapturing, isActive, userId, rl, queue, snaps, status,
                   posts, nextId, ticks, fails, foreign, windows, imgs, cache, retentionDays>>

\* ------------------------------------------------ retryFailedSubmissions
\* initializeExtension calls retryFailedSubmissions: it reads the queue
RetryStart(d) ==
    /\ pc[d] = "free"
    /\ Goto(d, "d_get", LocInit)
    /\ foreign' = foreign \ {d}
    /\ UNCHANGED <<now, isCapturing, isActive, userId, rl, queue, snaps, status,
                   posts, nextId, ticks, fails, windows, imgs, cache, retentionDays>>

\* the read completes: nothing queued (or a failed read), return; else the
\* for loop starts with the first entry
RetryRead(d, ok) ==
    /\ pc[d] = "d_get"
    /\ Failed(ok)
    /\ IF ok /\ queue # <<>>
       THEN DrainLoop(d, [loc[d] EXCEPT !.list = queue], 1)
       ELSE Done(d)
    /\ UNCHANGED <<now, isCapturing, isActive, userId, rl, queue, snaps, status,
                   posts, nextId, ticks, foreign, windows, imgs, cache, retentionDays>>

\* the write of remainingFailed completes (a failed write is caught and logged)
RetryWrite(d, ok) ==
    /\ pc[d] = "d_set"
    /\ Failed(ok)
    /\ queue' = IF ok THEN loc[d].wq ELSE queue
    /\ foreign' = IF ok THEN foreign \cup Interleaved(d) ELSE foreign
    /\ Goto(d, "free", LocInit)
    /\ UNCHANGED <<now, isCapturing, isActive, userId, rl, snaps, status,
                   posts, nextId, ticks, windows, imgs, cache, retentionDays>>

\* --------------------------------------------------- initializeExtension
\* the settings read completes: a userId is generated if there is none, and
\* all the settings are written back; a failed read goes to the catch, which
\* sets the offline icon
InitSettingsRead(s, ok) ==
    /\ pc[s] = "ie_get"
    /\ Failed(ok)
    /\ IF ok
       THEN Goto(s, "ie_set", [loc[s] EXCEPT !.settings = isActive,
                                             !.ret = retentionDays,
                                             !.uid = IF userId = "" THEN "generated"
                                                    ELSE userId])
       ELSE Goto(s, "ie_offline", loc[s])
    /\ UNCHANGED <<now, isCapturing, isActive, userId, rl, queue, snaps, status,
                   posts, nextId, ticks, foreign, windows, imgs, cache, retentionDays>>

\* the settings write completes: the icon is set from isActive
InitSettingsWrite(s, ok) ==
    /\ pc[s] = "ie_set"
    /\ Failed(ok)
    /\ IF ok
       THEN /\ isActive' = loc[s].settings
            /\ retentionDays' = loc[s].ret
            /\ userId' = loc[s].uid
            /\ Goto(s, "ie_badge", loc[s])
       ELSE /\ UNCHANGED <<isActive, retentionDays, userId>>
            /\ Goto(s, "ie_offline", loc[s])
    /\ UNCHANGED <<now, isCapturing, rl, queue, snaps, status,
                   posts, nextId, ticks, foreign, windows, imgs, cache>>

\* updateExtensionBadge completes: retryFailedSubmissions is called (it
\* awaits the read of the queue) and initializeExtension returns
InitRetry(s) ==
    /\ pc[s] = "ie_badge"
    /\ Goto(s, "d_get", LocInit)
    /\ foreign' = foreign \ {s}
    /\ UNCHANGED <<now, isCapturing, isActive, userId, rl, queue, snaps, status,
                   posts, nextId, ticks, fails, windows, imgs, cache, retentionDays>>

\* the catch's updateExtensionBadge("offline") completes
InitOffline(s) ==
    /\ pc[s] = "ie_offline"
    /\ Goto(s, "free", loc[s])
    /\ UNCHANGED <<now, isCapturing, isActive, userId, rl, queue, snaps, status,
                   posts, nextId, ticks, fails, foreign, windows, imgs, cache, retentionDays>>

\* ----------------------------------------------------------------- clock
Tick ==
    /\ ticks < MaxTicks
    /\ ticks' = ticks + 1
    /\ now' = now + TICK_MS
    /\ UNCHANGED <<isCapturing, isActive, userId, rl, queue, snaps, status, pc, loc,
                   posts, nextId, fails, foreign, windows, imgs, cache, retentionDays>>

\* ----------------------------------------------------------- insights
\* the result a call returns
Value(by, insights) == [kind |-> "value", by |-> by, insights |-> insights]

\* a call of task r ends with result res
Result(r, res) == Goto(r, "free", [LocInit EXCEPT !.res = res])

\* getInsights is called: it awaits GET /insights
GetInsights(r) ==
    /\ pc[r] = "free"
    /\ Goto(r, "gi_fetch", LocInit)
    /\ UNCHANGED <<now, isCapturing, isActive, userId, rl, queue, snaps, status,
                   posts, nextId, ticks, fails, foreign, windows, imgs, cache, retentionDays>>

\* the fetch, the body read and the conversion of the items complete: the
\* insights are written to the cache; anything thrown goes to the catch,
\* which reads the cache
InsightsFetch(r, success, items) ==
    /\ pc[r] = "gi_fetch"
    /\ IF success
       THEN Goto(r, "gi_cache", [loc[r] EXCEPT !.res = Value("live", items)])
       ELSE Goto(r, "gi_fallback", loc[r])
    /\ UNCHANGED <<now, isCapturing, isActive, userId, rl, queue, snaps, status,
                   posts, nextId, ticks, fails, foreign, windows, imgs, cache, retentionDays>>

\* the write of cached_insights and insights_cached_at completes: getInsights
\* returns the live insights; a failed write goes to the catch
InsightsCache(r, ok) ==
    /\ pc[r] = "gi_cache"
    /\ Failed(ok)
    /\ IF ok
       THEN /\ cache' = [present |-> TRUE, insights |-> loc[r].res.insights, at |-> now]
            /\ Result(r, loc[r].res)
       ELSE /\ cache' = cache
            /\ Goto(r, "gi_fallback", [loc[r] EXCEPT !.res = LocInit.res])
    /\ UNCHANGED <<now, isCapturing, isActive, userId, rl, queue, snaps, status,
                   posts, nextId, ticks, foreign, windows, imgs, retentionDays>>

\* a variant of the fallback that also returns a cache exactly one hour old
FallbackInclusive(c, t) ==
    IF c.present /\ t - c.at <= CACHE_MS THEN c.insights ELSE <<>>

\* the catch of getInsights, from the keys it read (c) and its Date.now()
Fallback(c, t) ==
    IF c.present /\ t - c.at < CACHE_MS THEN c.insights ELSE <<>>

\* the cache read in the catch completes; a failed read is thrown to the
\* caller of getInsights
InsightsFallback(r, ok) ==
    /\ pc[r] = "gi_fallback"
    /\ Failed(ok)
    /\ Result(r, IF ok THEN Value("fallback", Fallback(cache, now))
                 ELSE [kind |-> "throw", by |-> "fallback", insights |-> <<>>])
    /\ UNCHANGED <<now, isCapturing, isActive, userId, rl, queue, snaps, status,
                   posts, nextId, ticks, foreign, windows, imgs, cache, retentionDays>>

\* getCachedInsights is called: it awaits the read of cached_insights
GetCachedInsights(r) ==
    /\ pc[r] = "free"
    /\ Goto(r, "gc_get", LocInit)
    /\ UNCHANGED <<now, isCapturing, isActive, userId, rl, queue, snaps, status,
                   posts, nextId, ticks, fails, foreign, windows, imgs, cache, retentionDays>>

\* the read completes: data.cached_insights || []; a failed read gives []
CachedInsights(r, ok) ==
    /\ pc[r] = "gc_get"
    /\ Failed(ok)
    /\ Result(r, Value("cached", IF ok /\ cache.present THEN cache.insights ELSE <<>>))
    /\ UNCHANGED <<now, isCapturing, isActive, userId, rl, queue, snaps, status,
                   posts, nextId, ticks, foreign, windows, imgs, cache, retentionDays>>

\* ------------------------------------------------------ expiration sweep
\* the screenshot keys a stored snapshot references
Screenshots(ws) ==
    UNION {{ws.windows[n].tabs[q].screenshot : q \in DOMAIN ws.windows[n].tabs} :
              n \in DOMAIN ws.windows}
    \ {NoScreenshot, NullScreenshot}

\* a variant of the sweep's test that also deletes a snapshot exactly
\* retentionMs old
ToBeDeletedInclusive(store, cutoff) ==
    LET expired == {ws \in store : ws.timestamp <= cutoff}
    IN  [snaps |-> {ws.timestamp : ws \in expired},
         imgs |-> UNION {Screenshots(ws) : ws \in expired}]

\* toBeDeleted after the loop over the entries: the workspace_ keys whose
\* value has timestamp < cutoff and the screenshots those values name (the
\* img_ test sits in the else of the timestamp test, inside the workspace_
\* branch, where no key starts with img_)
ToBeDeleted(store, cutoff) ==
    LET expired == {ws \in store : ws.timestamp < cutoff}
    IN  [snaps |-> {ws.timestamp : ws \in expired},
         imgs |-> UNION {Screenshots(ws) : ws \in expired}]

\* the service worker loads: cleanupExpiredSnapshots computes its cutoff and
\* awaits the read of the whole store
Cleanup(c) ==
    /\ pc[c] = "free"
    /\ Goto(c, "cl_get", [LocInit EXCEPT !.t = now - DEFAULT_EXPIRATION.retentionMs,
                                         !.ret = retentionDays])
    /\ UNCHANGED <<now, isCapturing, isActive, userId, rl, queue, snaps, status,
                   posts, nextId, ticks, fails, foreign, windows, imgs, cache, retentionDays>>

\* the read completes: with something to delete, one remove is awaited; a
\* failed read is caught and logged
CleanupRead(c, ok) ==
    /\ pc[c] = "cl_get"
    /\ Failed(ok)
    /\ LET toBeDeleted == ToBeDeleted(snaps, loc[c].t)
       IN  IF ok /\ toBeDeleted.snaps # {}
           THEN Goto(c, "cl_remove", [loc[c] EXCEPT !.del = toBeDeleted])
           ELSE Goto(c, "free", loc[c])
    /\ UNCHANGED <<now, isCapturing, isActive, userId, rl, queue, snaps, status,
                   posts, nextId, ticks, foreign, windows, imgs, cache, retentionDays>>

\* a variant of the remove that also drops the queued submissions whose
\* snapshot has expired
CleanupRemoveQueue(c, ok) ==
    /\ pc[c] = "cl_remove"
    /\ Failed(ok)
    /\ snaps' = IF ok THEN {ws \in snaps : ws.timestamp \notin loc[c].del.snaps} ELSE snaps
    /\ imgs' = IF ok THEN imgs \ loc[c].del.imgs ELSE imgs
    /\ queue' = IF ok THEN SelectSeq(queue, LAMBDA f : f.workspace.timestamp >= loc[c].t)
                ELSE queue
    /\ Goto(c, "free", loc[c])
    /\ UNCHANGED <<now, isCapturing, isActive, userId, rl, status,
                   posts, nextId, ticks, foreign, windows, cache, retentionDays>>

\* chrome.storage.local.remove(toBeDeleted) completes; a failure is caught
\* and logged
CleanupRemove(c, ok) ==
    /\ pc[c] = "cl_remove"
    /\ Failed(ok)
    /\ snaps' = IF ok THEN {ws \in snaps : ws.timestamp \notin loc[c].del.snaps} ELSE snaps
    /\ imgs' = IF ok THEN imgs \ loc[c].del.imgs ELSE imgs
    /\ Goto(c, "free", loc[c])
    /\ UNCHANGED <<now, isCapturing, isActive, userId, rl, queue, status,
                   posts, nextId, ticks, foreign, windows, cache, retentionDays>>

\* the popup's settings panel: updateRetentionDays(days)
UpdateRetentionDays(days) ==
    /\ retentionDays # days
    /\ retentionDays' = days
    /\ UNCHANGED <<now, isCapturing, isActive, userId, rl, queue, snaps, status, pc, loc,
                   posts, nextId, ticks, fails, foreign, windows, imgs, cache>>

\* ------------------------------------------------------- specifications
\* one step of a getInsights or getCachedInsights call running in task r
InsightStep(r) ==
    \/ GetInsights(r)
    \/ \E success \in BOOLEAN, items \in {<<>>, <<"new">>} : InsightsFetch(r, success, items)
    \/ \E ok \in Outcomes : InsightsCache(r, ok)
    \/ \E ok \in Outcomes : InsightsFallback(r, ok)
    \/ GetCachedInsights(r)
    \/ \E ok \in Outcomes : CachedInsights(r, ok)

\* one step of cleanupExpiredSnapshots running in task c
SweepStep(c) ==
    \/ Cleanup(c)
    \/ \E ok \in Outcomes : CleanupRead(c, ok)
    \/ \E ok \in Outcomes : CleanupRemove(c, ok)

\* the idle listener and the toggleCapture handler in task h
SettingsStep(h) ==
    \/ \E newState \in {"idle", "active", "locked"} : IdleStateChanged(h, newState)
    \/ IdleSettings(h)
    \/ \E a \in BOOLEAN : ToggleCapture(h, a)
    \/ ToggleSet(h)

\* one step of a capture cycle running in task h
CaptureStep(h) ==
    \/ Badge(h)
    \/ Status(h)
    \/ \E ok \in Outcomes : CwGetAll(h, ok)
    \/ \E ok \in Outcomes : CwPersist(h, ok)
    \/ \E ok \in Outcomes : WorkspaceRateCheck(h, ok)
    \/ \E ok \in Outcomes : WorkspaceRateDetails(h, ok)
    \/ WorkspaceUserId(h)
    \/ \E healthy \in BOOLEAN : WorkspaceHealth(h, healthy)

\* one step of captureWorkspace's loops over windows and tabs in task h
TabStep(h) ==
    \/ CwTabs(h)
    \/ CwShot(h)
    \/ \E ok \in Outcomes : CwImage(h, ok)

\* one step of a submitContext call running in task p
SubmitStep(p) ==
    \/ \E ok \in Outcomes : SubmitRateCheck(p, ok)
    \/ \E success \in BOOLEAN : SubmitPost(p, success)
    \/ \E ok \in Outcomes : CountersRead(p, ok)
    \/ \E ok \in Outcomes : CountersWrite(p, ok)
    \/ \E ok \in Outcomes : FailedRead(p, ok)
    \/ \E ok \in Outcomes : FailedWrite(p, ok)

\* one step of retryFailedSubmissions running in task d
RetryStep(d) ==
    \/ RetryStart(d)
    \/ \E ok \in Outcomes : RetryRead(d, ok)
    \/ \E ok \in Outcomes : RetryWrite(d, ok)

\* one step of initializeExtension running in task s
StartStep(s) ==
    \/ \E ok \in Outcomes : InitSettingsRead(s, ok)
    \/ \E ok \in Outcomes : InitSettingsWrite(s, ok)
    \/ InitRetry(s)
    \/ InitOffline(s)

\* one step of the retryFailedSubmissions that initializeExtension called
DrainStep(d) ==
    \/ \E ok \in Outcomes : RetryRead(d, ok)
    \/ \E ok \in Outcomes : RetryWrite(d, ok)

\* the service worker has loaded; nothing is persisted yet but the settings
\* initializeExtension saves
Init ==
    /\ now = StartTime
    /\ ticks = 0
    /\ isCapturing = FALSE
    /\ isActive \in BOOLEAN
    /\ userId = "u1"
    /\ rl = NoRl
    /\ queue = <<>>
    /\ snaps = {}
    /\ windows = <<>>
    /\ imgs = {}
    /\ cache = NoCache
    /\ retentionDays = DEFAULT_RETENTION_DAYS
    /\ status = "none"
    /\ pc = [p \in Tasks |-> "free"]
    /\ loc = [p \in Tasks |-> LocInit]
    /\ posts = <<>>
    /\ nextId = 0
    /\ fails = 0
    /\ foreign = {}

\* the trigger listeners, interleaved at their awaits (the clock stands still)
Next ==
    \E h \in Handlers :
        SettingsStep(h) \/ ManualCapture(h) \/ CaptureStep(h) \/ SubmitStep(h)

Spec == Init /\ [][Next]_vars

\* the same, every awaited badge update and status message completing
SpecIdleFair ==
    /\ Init /\ [][Next]_vars
    /\ \A h \in Handlers : WF_vars(Badge(h)) /\ WF_vars(Status(h))

\* ---- the rate limiter over persisted state left by earlier submissions
\* k instants, gap apart, the last one at `last`
Instants(k, gap, last) == [i \in 1..k |-> last - (k - i) * gap]

\* the rate-limit keys after successful submissions recorded at `times`
RECURSIVE Recorded(_)
Recorded(times) ==
    IF times = <<>> THEN NoRl
    ELSE UpdatedCounters(Recorded(SubSeq(times, 1, Len(times) - 1)), times[Len(times)])

\* submissions made, one after the other, before the service worker started:
\* none; three in the last minute; twenty in the last hour (the hourly cap
\* is reached); one an hour ago and nineteen since (the cap is reached and
\* the hour window is about to elapse)
SeedHistories ==
    { <<>>,
      Instants(3, MIN_INTERVAL_MS, StartTime - MIN_INTERVAL_MS),
      Instants(MAX_REQUESTS_PER_HOUR, MIN_INTERVAL_MS, StartTime - MIN_INTERVAL_MS),
      <<StartTime - HOUR_MS>> \o
          Instants(MAX_REQUESTS_PER_HOUR - 1, MIN_INTERVAL_MS, StartTime - MIN_INTERVAL_MS) }

\* a FailedSubmission queued before the service worker started (submitWorkspaceToAWS
\* passes "idle" as the reason of every capture)
OldFailed(k) ==
    [id |-> 0 - k, workspace |-> [timestamp |-> StartTime - k * MINUTE_MS, windows |-> <<>>],
     userId |-> "u1", captureReason |-> "idle",
     timestamp |-> StartTime - k * MINUTE_MS, retryCount |-> 0]

\* a queue of n such records, oldest first
OldQueue(n) == [i \in 1..n |-> OldFailed(n + 1 - i)]

InitRate ==
    /\ now = StartTime
    /\ ticks = 0
    /\ isCapturing = FALSE
    /\ isActive = TRUE
    /\ userId = "u1"
    /\ \E times \in SeedHistories : rl = Recorded(times) /\ posts = times
    /\ queue = OldQueue(1)
    /\ snaps = {}
    /\ windows = <<>>
    /\ imgs = {}
    /\ cache = NoCache
    /\ retentionDays = DEFAULT_RETENTION_DAYS
    /\ status = "none"
    /\ pc = [p \in Tasks |-> "free"]
    /\ loc = [p \in Tasks |-> LocInit]
    /\ nextId = 0
    /\ fails = 0
    /\ foreign = {}

\* manual captures and the startup drain, interleaved, while the clock runs
NextRate ==
    \/ \E h \in Handlers : ManualCapture(h) \/ CaptureStep(h)
    \/ \E p \in Procs : SubmitStep(p)
    \/ \E d \in Drains : RetryStep(d)
    \/ Tick

SpecRate == InitRate /\ [][NextRate]_vars

\* the lengths of the retry queue persisted before the service worker
\* started: one below the cap of storeFailedSubmission, and at the cap
QueueSeeds == {QUEUE_KEEP - 1, QUEUE_KEEP}

InitQueue ==
    /\ now = StartTime
    /\ ticks = 0
    /\ isCapturing = FALSE
    /\ isActive = TRUE
    /\ userId = "u1"
    /\ rl = NoRl
    /\ posts = <<>>
    /\ \E n \in QueueSeeds : queue = OldQueue(n)
    /\ snaps = {}
    /\ windows = <<>>
    /\ imgs = {}
    /\ cache = NoCache
    /\ retentionDays = DEFAULT_RETENTION_DAYS
    /\ status = "none"
    /\ pc = [p \in Tasks |-> "free"]
    /\ loc = [p \in Tasks |-> LocInit]
    /\ nextId = 0
    /\ fails = 0
    /\ foreign = {}

\* manual captures and the startup drain, interleaved, within one instant
NextQueue ==
    \/ \E h \in Handlers : ManualCapture(h) \/ CaptureStep(h)
    \/ \E p \in Procs : SubmitStep(p)
    \/ \E d \in Drains : RetryStep(d)

SpecQueue == InitQueue /\ [][NextQueue]_vars

\* ---- capture cycles over browsers with windows and tabs
Pages == {"shot", "plain", "none", "throw"}
Shots == {"image", "empty", "throw"}

Tab(id, scheme, active, page) ==
    [id |-> id, scheme |-> scheme, active |-> active, page |-> page]

\* the browsers: a window of three web pages, the first one active, and a
\* window of an internal page and an active web page, every page giving any
\* of the extraction outcomes and the first window any screenshot outcome;
\* and a window without tabs before a window whose active tab is internal
WindowSeeds ==
    { << [id |-> 1, shot |-> s,
          tabs |-> <<Tab(11, "http", TRUE, p1), Tab(12, "https", FALSE, p2),
                     Tab(13, "http", FALSE, p3)>>],
         [id |-> 2, shot |-> "image",
          tabs |-> <<Tab(21, "chrome", FALSE, "throw"), Tab(22, "https", TRUE, p4)>>] >> :
      p1 \in Pages, p2 \in Pages, p3 \in Pages, p4 \in Pages, s \in Shots }
    \cup
    { << [id |-> 1, shot |-> "image", tabs |-> <<>>],
         [id |-> 2, shot |-> "image",
          tabs |-> <<Tab(21, "file", TRUE, "throw"), Tab(22, "http", FALSE, p)>>] >> :
      p \in Pages }

InitTabs ==
    /\ now = StartTime
    /\ ticks = 0
    /\ isCapturing = FALSE
    /\ isActive = TRUE
    /\ userId = "u1"
    /\ rl = NoRl
    /\ queue = <<>>
    /\ snaps = {}
    /\ windows \in WindowSeeds
    /\ imgs = {}
    /\ cache = NoCache
    /\ retentionDays = DEFAULT_RETENTION_DAYS
    /\ status = "none"
    /\ pc = [p \in Tasks |-> "free"]
    /\ loc = [p \in Tasks |-> LocInit]
    /\ posts = <<>>
    /\ nextId = 0
    /\ fails = 0
    /\ foreign = {}

\* manual captures, from the request to the end of the submission
NextTabs ==
    \E h \in Handlers :
        ManualCapture(h) \/ CaptureStep(h) \/ TabStep(h) \/ SubmitStep(h)

SpecTabs == InitTabs /\ [][NextTabs]_vars

\* ---- the insights over a cache left by an earlier fetch
\* when the cache was written: none; just now; one clock advance less than
\* an hour ago
CacheSeeds ==
    { NoCache,
      [present |-> TRUE, insights |-> <<"old">>, at |-> StartTime - TICK_MS],
      [present |-> TRUE, insights |-> <<"old">>, at |-> StartTime - CACHE_MS + TICK_MS] }

InitInsights ==
    /\ now = StartTime
    /\ ticks = 0
    /\ isCapturing = FALSE
    /\ isActive = TRUE
    /\ userId = "u1"
    /\ rl = NoRl
    /\ queue = <<>>
    /\ snaps = {}
    /\ windows = <<>>
    /\ imgs = {}
    /\ cache \in CacheSeeds
    /\ retentionDays = DEFAULT_RETENTION_DAYS
    /\ status = "none"
    /\ pc = [p \in Tasks |-> "free"]
    /\ loc = [p \in Tasks |-> LocInit]
    /\ posts = <<>>
    /\ nextId = 0
    /\ fails = 0
    /\ foreign = {}

\* the popup and the background reading the insights while the clock runs
NextInsights ==
    \/ \E r \in Readers : InsightStep(r)
    \/ Tick

SpecInsights == InitInsights /\ [][NextInsights]_vars

\* ---- the expiration sweep over snapshots left by earlier captures
\* a stored snapshot of one window with one tab, taken `age` before the
\* service worker started, its screenshot stored or not taken
OldSnapshot(age, shot) ==
    [timestamp |-> StartTime - age,
     windows |-> << [windowId |-> 1, activeTabId |-> 11,
                     tabs |-> << [tabId |-> 11, isActive |-> TRUE,
                                  screenshot |-> IF shot THEN ImgKey(StartTime - age, 11)
                                                 ELSE NullScreenshot] >>] >>]

\* snapshots 8 days, 7 days less one clock advance, 6 days and 2 days old
OldSnapshots ==
    { OldSnapshot(8 * DAY_MS, TRUE),
      OldSnapshot(7 * DAY_MS - TICK_MS, TRUE),
      OldSnapshot(6 * DAY_MS, TRUE),
      OldSnapshot(2 * DAY_MS, FALSE) }

\* a FailedSubmission queued 8 days ago, holding the snapshot of that time
ExpiredFailed ==
    [id |-> 0 - 1, workspace |-> OldSnapshot(8 * DAY_MS, TRUE),
     userId |-> "u1", captureReason |-> "idle",
     timestamp |-> StartTime - 8 * DAY_MS, retryCount |-> 0]

\* a screenshot stored 9 days ago by a cycle whose snapshot write then failed:
\* no stored snapshot names it
OrphanImages == {ImgKey(StartTime - 9 * DAY_MS, 11)}

\* the store holds old snapshots with their screenshots, possibly an orphan
\* screenshot, a retry queue with an entry older than the retention period,
\* rate-limit keys of a submission one interval ago and an insight cache
InitSweep ==
    /\ now = StartTime
    /\ ticks = 0
    /\ isCapturing = FALSE
    /\ isActive = TRUE
    /\ userId = "u1"
    /\ rl = Recorded(<<StartTime - MIN_INTERVAL_MS>>)
    /\ queue = <<ExpiredFailed>>
    /\ snaps \in SUBSET OldSnapshots
    /\ windows = <<>>
    /\ \E orphans \in SUBSET OrphanImages :
          imgs = UNION {Screenshots(ws) : ws \in snaps} \cup orphans
    /\ cache = [present |-> TRUE, insights |-> <<"old">>, at |-> StartTime - TICK_MS]
    /\ retentionDays = DEFAULT_RETENTION_DAYS
    /\ status = "none"
    /\ pc = [p \in Tasks |-> "free"]
    /\ loc = [p \in Tasks |-> LocInit]
    /\ posts = <<>>
    /\ nextId = 0
    /\ fails = 0
    /\ foreign = {}

\* the sweep and the retention setting while the clock runs
NextSweep ==
    \/ \E c \in Sweepers : SweepStep(c)
    \/ \E days \in {1, DEFAULT_RETENTION_DAYS} : UpdateRetentionDays(days)
    \/ Tick

SpecSweep == InitSweep /\ [][NextSweep]_vars

\* ---- the start of the service worker
\* what wakes the service worker: an event for which it has no listener that
\* calls initializeExtension ("none": an idle-state change, a message), the
\* browser's start, or the installation or update of the extension
StartEvents == {"none", "onStartup", "onInstalled"}

\* the module has been evaluated (initializeExtension() at its end has run
\* up to its first await) and the event that woke the worker has been
\* dispatched (its listener has run up to the same await); a first installation
\* finds no userId and no queue
InitStart ==
    /\ now = StartTime
    /\ ticks = 0
    /\ isCapturing = FALSE
    /\ isActive = TRUE
    /\ \E fresh \in BOOLEAN :
          /\ userId = IF fresh THEN "" ELSE "u1"
          /\ queue = IF fresh THEN <<>> ELSE OldQueue(1)
    /\ rl = NoRl
    /\ snaps = {}
    /\ windows = <<>>
    /\ imgs = {}
    /\ cache = NoCache
    /\ retentionDays = DEFAULT_RETENTION_DAYS
    /\ status = "none"
    /\ \E event \in StartEvents :
          /\ pc = [p \in Tasks |->
                      IF p = Loader \/ (p = Listener /\ event # "none")
                      THEN "ie_get" ELSE "free"]
          /\ loc = [p \in Tasks |->
                      IF p = Loader THEN [LocInit EXCEPT !.event = "load"]
                      ELSE IF p = Listener /\ event # "none"
                      THEN [LocInit EXCEPT !.event = event]
                      ELSE LocInit]
    /\ posts = <<>>
    /\ nextId = 0
    /\ fails = 0
    /\ foreign = {}

\* the initializeExtension calls and the drains they start, interleaved
NextStart ==
    \E s \in Starters : StartStep(s) \/ DrainStep(s) \/ SubmitStep(s)

SpecStart == InitStart /\ [][NextStart]_vars

\* ---- submitContext called again and again from empty rate-limit state
\* the task that makes the calls
Caller == 1

\* the time between two calls: none, a sixth of the minimum interval, the
\* minimum interval; the time a POST takes: none, a sixth of the interval
Gaps == {0, MIN_INTERVAL_MS \div 6, MIN_INTERVAL_MS}
Latencies == {0, MIN_INTERVAL_MS \div 6}

\* sequential calls, the clock advancing between and during them
NextCalls ==
    \/ \E gap \in Gaps : Wait(Caller, gap)
    \/ \E latency \in Latencies : SubmitContext(Caller, latency)

SpecCalls == Init /\ [][NextCalls]_vars

\* ---- submit calls one after the other: the retry drain alone, the clock
\* running, over rate-limit keys left by earlier sequential submissions
\* the submissions recorded before: none; four, the oldest 48 s ago and the
\* last 12 s ago; four, the oldest 60 s ago and the last 24 s ago
SeqHistories ==
    { <<>>,
      Instants(MAX_REQUESTS_PER_MINUTE - 1, MIN_INTERVAL_MS, StartTime - MIN_INTERVAL_MS),
      Instants(MAX_REQUESTS_PER_MINUTE - 1, MIN_INTERVAL_MS, StartTime - 2 * MIN_INTERVAL_MS) }

InitSeq ==
    /\ now = StartTime
    /\ ticks = 0
    /\ isCapturing = FALSE
    /\ isActive = TRUE
    /\ userId = "u1"
    /\ \E times \in SeqHistories : rl = Recorded(times) /\ posts = times
    /\ queue = OldQueue(SeqQueueLen)
    /\ snaps = {}
    /\ windows = <<>>
    /\ imgs = {}
    /\ cache = NoCache
    /\ retentionDays = DEFAULT_RETENTION_DAYS
    /\ status = "none"
    /\ pc = [p \in Tasks |-> "free"]
    /\ loc = [p \in Tasks |-> LocInit]
    /\ nextId = 0
    /\ fails = 0
    /\ foreign = {}

\* the drain resubmits its entries in turn (no other task submits)
NextSeq ==
    \/ \E d \in Drains : RetryStep(d)
    \/ \E d \in Drains : SubmitStep(d)
    \/ Tick

SpecSeq == InitSeq /\ [][NextSeq]_vars

\* =================================================================== claims
\* task h is inside captureWorkspace: entered, neither returned nor thrown
InFlight(h) ==
    \/ pc[h] \in {"cw_getAll", "cw_tabs", "cw_shot", "cw_img", "cw_persist", "w_ssc", "w_details", "w_uid", "w_health",
                  "ssc_get", "post", "urc_get", "urc_set", "sfs_get", "sfs_set"}
    \/ pc[h] \in {"badge", "status"} /\ loc[h].after = "end"

\* C1: whatever the interleaving of idle-state changes, manualCapture and
\* toggleCapture messages, at most one captureWorkspace cycle is in flight.
C1_AtMostOneCaptureInFlight ==
    Cardinality({h \in Handlers : InFlight(h)}) <= 1

\* the step is taken by task p
StepBy(p) == pc'[p] # pc[p] \/ loc'[p] # loc[p]

\* the POSTs sent since the service worker started
RunPosts == SelectSeq(posts, LAMBDA t : t >= StartTime)

\* task p's latest submitContext call returned r
Returned(p, r) == loc[p].rets # <<>> /\ loc[p].rets[Len(loc[p].rets)] = r

\* with this step a submitContext call of task p returns r
Returns(p, r) ==
    /\ loc'[p].rets = Append(loc[p].rets, r)
    /\ pc'[p] \notin {"post", "urc_get", "urc_set", "sfs_get", "sfs_set"}

\* C2: no two submissions admitted by the rate limiter (a POST /context was
\* sent) are less than 12 s apart.
C2_MinIntervalBetweenPosts ==
    \A i, j \in 1..Len(posts) : i < j => posts[j] - posts[i] >= MIN_INTERVAL_MS

\* C3: at most 5 submissions are admitted within any rolling 60 s span: six
\* admitted submissions never lie less than 60 s apart.
C3_FivePerRollingMinute ==
    \A i \in 1..Len(posts) :
        i + MAX_REQUESTS_PER_MINUTE <= Len(posts)
            => posts[i + MAX_REQUESTS_PER_MINUTE] - posts[i] >= MINUTE_MS

\* C4: at most 20 submissions are admitted within any rolling 3600 s span,
\* also across a reset of the hour window: twenty-one admitted submissions
\* never lie less than 3600 s apart.
C4_TwentyPerRollingHour ==
    \A i \in 1..Len(posts) :
        i + MAX_REQUESTS_PER_HOUR <= Len(posts)
            => posts[i + MAX_REQUESTS_PER_HOUR] - posts[i] >= HOUR_MS

\* the admission rule as C5 states it, on persisted keys d at instant t
ClaimedRule(d, t) ==
    LET absent == d = NoRl
        lastSubmissionAt == IF absent THEN 0 ELSE d.last_aws_submission
        minuteWindowStart == IF absent THEN t ELSE d.aws_minute_start
        hourWindowStart == IF absent THEN t ELSE d.aws_hour_start
        minuteCount == IF absent \/ t - minuteWindowStart >= MINUTE_MS
                       THEN 0 ELSE d.aws_requests_minute
        hourCount == IF absent \/ t - hourWindowStart >= HOUR_MS
                     THEN 0 ELSE d.aws_requests_hour
    IN  CASE ~(t - lastSubmissionAt >= MIN_INTERVAL_MS)    -> "interval"
          [] ~(minuteCount < MAX_REQUESTS_PER_MINUTE)      -> "minute"
          [] ~(hourCount < MAX_REQUESTS_PER_HOUR)          -> "hour"
          [] OTHER                                         -> "ok"

\* C5: a shouldSubmitContext call whose read succeeds returns true exactly when
\* now - lastSubmissionAt >= 12 s, minuteCount (0 once its window has elapsed)
\* is below 5 and hourCount (0 once its window has elapsed) is below 20, the
\* checks applied in that order; absent state counts as lastSubmissionAt = 0,
\* counts 0 and window starts = now.
C5_ShouldSubmitExactly ==
    [][\A p \in Procs :
          pc[p] \in {"ssc_get", "w_ssc"} /\ StepBy(p) /\ fails' = fails
              => /\ ShouldSubmitRule(rl, loc[p].t) = ClaimedRule(rl, loc[p].t)
                 /\ pc'[p] \in {"post", "w_uid"} <=> ClaimedRule(rl, loc[p].t) = "ok"]_vars

\* C5 witness: a rate check is about to be denied by the per-minute cap
C5_Witness ==
    \E p \in Procs :
        pc[p] \in {"ssc_get", "w_ssc"} /\ ClaimedRule(rl, loc[p].t) = "minute"

\* C6: a submitContext call denied by the rate limiter returns null, sends no
\* network request and leaves the persisted retry queue and rate-limit state
\* as they were (and so does the denied pre-check of submitWorkspaceToAWS).
C6_DeniedChangesNothing ==
    [][\A p \in Procs :
          /\ pc[p] = "ssc_get" /\ StepBy(p) /\ ClaimedRule(rl, loc[p].t) # "ok"
                => Returns(p, "null") /\ posts' = posts /\ queue' = queue /\ rl' = rl
          /\ pc[p] = "w_ssc" /\ StepBy(p) /\ ClaimedRule(rl, loc[p].t) # "ok"
                => pc'[p] = "w_details" /\ posts' = posts /\ queue' = queue /\ rl' = rl]_vars

\* C6 witness: the hourly cap is reached, a submitContext call has returned
\* null and no POST has been sent and no store operation has failed
C6_Witness ==
    \E p \in Procs :
        /\ Returned(p, "null")
        /\ RunPosts = <<>> /\ fails = 0
        /\ rl.aws_requests_hour = MAX_REQUESTS_PER_HOUR

\* the ids of the entries of a queue
Ids(q) == {q[k].id : k \in DOMAIN q}

\* with this step the queue gains exactly one FailedSubmission, generated
\* during this run, that holds the arguments of task p's submitContext call
GainsFailedSubmission(p) ==
    \E id \in 1..nextId' :
        /\ id \notin Ids(queue)
        /\ Cardinality({k \in DOMAIN queue' : queue'[k].id = id}) = 1
        /\ \A k \in DOMAIN queue' :
               queue'[k].id = id
                   => /\ queue'[k].workspace = loc[p].ws
                      /\ queue'[k].userId = loc[p].uid
                      /\ queue'[k].captureReason = loc[p].reason

RECURSIVE KeptFrom(_, _, _)
KeptFrom(list, rets, k) ==
    IF k > Len(list) THEN <<>>
    ELSE (IF rets[k] = "id" THEN <<>> ELSE <<list[k]>>) \o KeptFrom(list, rets, k + 1)

\* C8: a retryFailedSubmissions run that completes (its final write succeeds)
\* with no other task writing the queue meanwhile leaves the queue equal to
\* the queue it read minus the entries whose resubmission returned an id, in
\* the original order and without duplicates.
C8_DrainLeavesRemaining ==
    [][\A d \in Drains :
          pc[d] = "d_set" /\ StepBy(d) /\ fails' = fails /\ d \notin foreign
              => /\ Len(loc[d].rets) = Len(loc[d].list)
                 /\ queue' = KeptFrom(loc[d].list, loc[d].rets, 1)
                 /\ \A i, j \in DOMAIN queue' : i < j => queue'[i].id # queue'[j].id]_vars

\* C8 witness: the drain has completed alone; the resubmission of the oldest
\* of ten entries failed (it pushed a duplicate), the second was accepted and
\* the others were denied: the queue holds the nine others, in order
C8_Witness ==
    /\ \A d \in Drains : pc[d] = "free" /\ d \notin foreign
    /\ \A h \in Handlers : pc[h] = "free" /\ loc[h].rets = <<>>
    /\ nextId = 1 /\ fails = 0 /\ Len(RunPosts) = 2
    /\ queue = <<OldFailed(QUEUE_KEEP)>> \o SubSeq(OldQueue(QUEUE_KEEP), 3, QUEUE_KEEP)

\* C9: failed_submissions never holds more than 10 entries; pushing onto a
\* list of 10 removes the oldest entry and keeps the other 9 and the new one,
\* in order.
C9_QueueCapped ==
    /\ [](Len(queue) <= QUEUE_KEEP)
    /\ [][\A p \in Procs :
            /\ pc[p] = "sfs_get" /\ pc'[p] = "sfs_set" /\ Len(queue) = QUEUE_KEEP
                  => /\ Len(loc'[p].wq) = QUEUE_KEEP
                     /\ SubSeq(loc'[p].wq, 1, QUEUE_KEEP - 1) = Tail(queue)
                     /\ loc'[p].wq[QUEUE_KEEP].id = nextId'
                     /\ loc'[p].wq[QUEUE_KEEP].id \notin Ids(queue)
            /\ pc[p] = "sfs_set" /\ StepBy(p) /\ fails' = fails
                  => queue' = loc[p].wq]_vars

\* C9 witness: a push onto ten entries has been written: the oldest is gone,
\* the other nine and the new entry are there, in order
C9_Witness ==
    /\ Len(queue) = QUEUE_KEEP
    /\ SubSeq(queue, 1, QUEUE_KEEP - 1) = Tail(OldQueue(QUEUE_KEEP))
    /\ queue[QUEUE_KEEP].id = 1

\* C10: when the read of the rate-limit state fails, shouldSubmitContext
\* returns false: the submitContext call returns null, sends no POST and
\* queues nothing.
C10_FailedReadDenies ==
    [][\A p \in Procs :
          pc[p] = "ssc_get" /\ StepBy(p) /\ fails' # fails
              => /\ Returns(p, "null")
                 /\ posts' = posts /\ queue' = queue /\ nextId' = nextId]_vars

\* C10 witness: nothing has been submitted, so only the failed read can have
\* made the submitContext call return null
C10_Witness ==
    \E p \in Procs :
        Returned(p, "null") /\ rl = NoRl /\ posts = <<>> /\ fails = 1 /\ nextId = 0

\* C11: a failure of the store write that records a successful submission does
\* not let the limits be breached: they are enforced as if the submission had
\* been recorded, so a submit call made 6 s after it is denied.
C11_FailedRecordStillDenies ==
    [][\A p \in Procs :
          pc[p] = "urc_set" /\ StepBy(p) /\ fails' # fails
              => ClaimedRule(rl', loc[p].t + TICK_MS) = "interval"]_vars

\* the record of a successful submission as C12 states it, from the persisted
\* keys d and the instant t
ClaimedUpdate(d, t) ==
    LET absent == d = NoRl
        minuteElapsed == absent \/ t - d.aws_minute_start >= MINUTE_MS
        hourElapsed == absent \/ t - d.aws_hour_start >= HOUR_MS
    IN  [last_aws_submission |-> t,
         aws_requests_minute |-> (IF minuteElapsed THEN 0 ELSE d.aws_requests_minute) + 1,
         aws_requests_hour   |-> (IF hourElapsed THEN 0 ELSE d.aws_requests_hour) + 1,
         aws_minute_start    |-> IF minuteElapsed THEN t ELSE d.aws_minute_start,
         aws_hour_start      |-> IF hourElapsed THEN t ELSE d.aws_hour_start]

C18_IdleCaptureOnlyWhileActive ==
    [][\A h \in Handlers :
          pc[h] = "status" /\ loc[h].after = "capture" /\ pc'[h] = "cw_getAll"
              => isActive]_vars

\* C19: every idle-state change handled while tracking is disabled (the
\* listener read isActive = false) broadcasts status = paused.
C19_PausedBroadcastWhenDisabled ==
    [][\A h \in Handlers :
          pc[h] = "idle_get" /\ StepBy(h) /\ ~isActive
              => pc'[h] = "badge" /\ loc'[h].notify = "paused"]_vars

\* C20: when an idle-state change to idle is handled while tracking is enabled
\* and no capture is in flight, status = capturing is broadcast, and then a
\* capture cycle is started, once, for that event.
C20_IdleStartsOneCapture ==
    /\ [][\A h \in Handlers :
            /\ ( /\ pc[h] = "idle_get" /\ StepBy(h)
                 /\ loc[h].newState = "idle" /\ isActive
                 /\ (\A g \in Handlers : ~InFlight(g)) )
                  => /\ pc'[h] = "badge"
                     /\ loc'[h].notify = "capturing" /\ loc'[h].after = "capture"
            /\ pc[h] = "badge" /\ StepBy(h) /\ loc[h].after = "capture"
                  => /\ status' = "capturing"
                     /\ pc'[h] = "status" /\ loc'[h].after = "capture"
            /\ pc[h] = "status" /\ StepBy(h) /\ loc[h].after = "capture"
                  => pc'[h] = "cw_getAll" /\ isCapturing'
            /\ pc[h] # "cw_getAll" /\ pc'[h] = "cw_getAll"
                  => \/ pc[h] = "free"
                     \/ pc[h] = "status" /\ loc[h].after = "capture"]_vars
    /\ \A h \in Handlers :
          (pc[h] = "badge" /\ loc[h].after = "capture") ~> (pc[h] = "cw_getAll")

\* C20 witness: the idle listener has broadcast status = capturing and its
\* capture cycle, the only one, is in flight
C20_Witness ==
    \E h \in Handlers :
        /\ pc[h] = "cw_getAll" /\ loc[h].newState = "idle"
        /\ status = "capturing"
        /\ \A g \in Handlers \ {h} : ~InFlight(g)

\* the tabs of a browser window that are web pages and whose extraction
\* returns a result, in the order of the window
ResultTabs(win) ==
    SelectSeq(win.tabs, LAMBDA t : t.scheme \in {"http", "https"}
                                     /\ t.page \in {"shot", "plain"})

\* what C13 says is persisted for the browser wins: per window with at least
\* one such tab, its id and the ids of those tabs, in order
ExpectedWindows(wins) ==
    LET kept == SelectSeq(wins, LAMBDA win : ResultTabs(win) # <<>>)
    IN  [n \in DOMAIN kept |->
            [windowId |-> kept[n].id,
             tabIds |-> [q \in DOMAIN ResultTabs(kept[n]) |-> ResultTabs(kept[n])[q].id]]]

\* the window ids and tab ids of a WorkspaceCapture
CapturedWindows(ws) ==
    [n \in DOMAIN ws.windows |->
        [windowId |-> ws.windows[n].windowId,
         tabIds |-> [q \in DOMAIN ws.windows[n].tabs |-> ws.windows[n].tabs[q].tabId]]]

\* C13: the snapshot a capture cycle persists holds, per window, exactly one
\* TabSnapshot for every http(s) tab whose extraction returned a result, in
\* enumeration order; a window without such a tab is omitted, so every
\* persisted WindowSnapshot has a tab; an extraction failure does not abort
\* the cycle.
C13_TabsPerWindow ==
    /\ [](\A ws \in snaps : \A n \in DOMAIN ws.windows : ws.windows[n].tabs # <<>>)
    /\ [][\A h \in Handlers :
            /\ pc[h] = "cw_persist" /\ StepBy(h) /\ fails' = fails
                  => \E ws \in snaps' :
                        /\ ws.timestamp = loc[h].ws.timestamp
                        /\ CapturedWindows(ws) = ExpectedWindows(windows)
            /\ pc[h] = "cw_tabs" /\ StepBy(h)
                  => /\ pc'[h] \in {"cw_tabs", "cw_shot", "cw_persist"}
                     /\ isCapturing' = isCapturing]_vars

\* C13 witness: of three web pages in the first window the second failed
\* extraction, all pages of the second window failed: one WindowSnapshot with
\* two tabs is persisted
C13_Witness ==
    /\ Len(windows) = 2 /\ Len(windows[1].tabs) = 3
    /\ windows[1].tabs[2].page = "throw"
    /\ \E ws \in snaps :
          /\ Len(ws.windows) = 1
          /\ Len(ws.windows[1].tabs) = 2
          /\ ws.windows[1].tabs[1].tabId = windows[1].tabs[1].id
          /\ ws.windows[1].tabs[2].tabId = windows[1].tabs[3].id

C15_NoStaleInsights ==
    [][\A r \in Readers :
          ( /\ pc[r] \in {"gi_fallback", "gc_get"} /\ StepBy(r)
            /\ cache.present /\ now - cache.at >= CACHE_MS )
              => loc'[r].res.insights = <<>>]_vars

\* C16: a sweep whose read and remove succeed deletes a stored snapshot
\* exactly when its timestamp < now - retentionMs, now being the sweep's
\* Date.now() (a snapshot exactly that old is kept), deletes with it, in the
\* same remove, every screenshot key it references, and leaves every other
\* snapshot and the screenshot keys it references.
C16_SweepDeletesExpired ==
    [][\A c \in Sweepers :
          /\ pc[c] = "free" /\ pc'[c] = "cl_get"
                => loc'[c].t = now - 7 * DAY_MS
          /\ pc[c] = "cl_get" /\ pc'[c] = "free" /\ fails' = fails
                => /\ \A ws \in snaps : ws.timestamp >= loc[c].t
                   /\ snaps' = snaps /\ imgs' = imgs
          /\ pc[c] = "cl_remove" /\ StepBy(c) /\ fails' = fails
                => /\ snaps' \subseteq snaps /\ imgs' \subseteq imgs
                   /\ \A ws \in snaps : ws \notin snaps' <=> ws.timestamp < loc[c].t
                   /\ \A ws \in snaps \ snaps' : Screenshots(ws) \cap imgs' = {}
                   /\ \A ws \in snaps' : Screenshots(ws) \cap imgs \subseteq imgs']_vars

\* C16 witness: a sweep started when one snapshot was exactly 7 days old has
\* deleted the snapshot 8 days old and its screenshot and kept the other
C16_Witness ==
    \E c \in Sweepers :
        /\ pc[c] = "free" /\ fails = 0
        /\ loc[c].t = StartTime + TICK_MS - 7 * DAY_MS
        /\ loc[c].del.snaps = {StartTime - 8 * DAY_MS}
        /\ OldSnapshot(8 * DAY_MS, TRUE) \notin snaps
        /\ ImgKey(StartTime - 8 * DAY_MS, 11) \notin imgs
        /\ OldSnapshot(7 * DAY_MS - TICK_MS, TRUE) \in snaps
        /\ ImgKey(StartTime - 7 * DAY_MS + TICK_MS, 11) \in imgs

\* C17: a sweep started after the user has set the retention to d days
\* leaves no snapshot older than d days (at the sweep's start).
C17_SweepUsesConfiguredRetention ==
    [][\A c \in Sweepers :
          pc[c] \in {"cl_get", "cl_remove"} /\ pc'[c] = "free" /\ fails' = fails
              => \A ws \in snaps' :
                    ws.timestamp >= loc[c].t + DEFAULT_EXPIRATION.retentionMs
                                    - loc[c].ret * DAY_MS]_vars

\* C21: an idle-state change or a manualCapture message that arrives while
\* isCapturing is true starts no capture cycle, neither at once nor after the
\* cycle in flight has ended (a manualCapture message that finds isCapturing
\* true ends its listener run in the same step and leaves every variable as
\* it was).
C21_BusyTriggersDropped ==
    [][\A h \in Handlers :
          pc'[h] = "cw_getAll" /\ pc[h] # "cw_getAll"
              => /\ ~loc[h].busy
                 /\ pc[h] = "free" => ~isCapturing]_vars

C23_OneScreenshotPerCycle ==
    \A h \in Handlers :
        Cardinality(Screenshots(loc[h].ws) \cap imgs) <= 1

\* C24: every POST /context, sent by a capture cycle or by a retry drain,
\* is sent by a task whose GET /health probe, made for this submission, gave
\* the status healthy.
C24_HealthyBeforeEveryPost ==
    [][\A p \in Procs :
          Len(posts') > Len(posts) /\ StepBy(p) => loc[p].health = "healthy"]_vars

\* task p is inside retryFailedSubmissions
Draining(p) ==
    pc[p] \in {"d_get", "d_set", "ssc_get", "post", "urc_get", "urc_set",
               "sfs_get", "sfs_set"}

\* C25: whatever starts the service worker (with or without an onStartup or
\* onInstalled event), its initializeExtension calls never have two
\* retryFailedSubmissions running at once.
C25_OneDrainPerStart ==
    Cardinality({s \in Starters : Draining(s)}) <= 1

\* the calls the caller has made so far
Calls == loc[Caller].log

\* C26 as stated: from empty rate-limit state and without failures, of six
\* submit calls within 50 s the first five are admitted whenever each is at
\* least 12 s after the previous one, and the sixth is denied by the
\* per-minute cap.
C26_SixthDeniedByMinuteCap ==
    ( /\ Len(Calls) >= 6
      /\ Calls[6].at - Calls[1].at <= 50000
      /\ \A i \in 2..5 : Calls[i].at - Calls[i - 1].at >= 12000 )
        => /\ \A i \in 1..5 : Calls[i].rule = "ok"
           /\ Calls[6].rule = "minute"

\* C26, amended: from empty rate-limit state and without failures, of six
\* submit calls within 50 s the first five are admitted whenever each is at
\* least 12 s after the previous submission was recorded, and the sixth is
\* denied by the minimum interval (it comes less than 12 s after the fifth
\* submission), before the per-minute cap is tested.
C26_SixthDeniedByInterval ==
    ( /\ Len(Calls) >= 6
      /\ Calls[6].at - Calls[1].at <= 50000
      /\ \A i \in 2..5 : Calls[i].at - Calls[i - 1].rec >= 12000 )
        => /\ \A i \in 1..5 : Calls[i].rule = "ok"
           /\ Calls[6].rule = "interval"
           /\ rl.aws_requests_minute = 5

\* C26 witness: five calls 12 s apart were admitted and a sixth, 2 s after
\* the fifth, was denied
C26_Witness ==
    /\ Len(Calls) = 6
    /\ \A i \in 2..5 : Calls[i].at - Calls[i - 1].rec = 12000
    /\ Calls[6].at - Calls[1].at = 50000
    /\ loc[Caller].rets = <<"id", "id", "id", "id", "id", "null">>

\* the correlation ids the submitContext calls of a run returned
IdsReturned(l) == Len(SelectSeq(l.rets, LAMBDA r : r = "id"))

\* C27: when a listener run or a drain ends, it has scheduled one delayed
\* fetch of the analyzed context and the insights, 5 s ahead, for every
\* submitContext call of it that returned a correlation id, and none for a
\* call that returned null.
C27_FetchScheduledPerId ==
    [][/\ \A h \in Handlers :
             pc[h] # "free" /\ pc'[h] = "free"
                 => /\ Len(loc'[h].timers) = IdsReturned(loc'[h])
                    /\ \A n \in DOMAIN loc'[h].timers : loc'[h].timers[n] = 5000
       /\ \A d \in Drains :
             pc[d] = "d_set" /\ pc'[d] = "free"
                 => Len(loc[d].timers) = IdsReturned(loc[d])]_vars

\* the kind of trigger that started the listener run with locals l
TriggerKind(l) == IF l.newState = "idle" THEN "idle" ELSE "manual"

\* C28: the event of the body a capture cycle sends and the captureReason of
\* the FailedSubmission it stores name the kind of trigger that started the
\* cycle: manual for a manualCapture message, idle for an idle transition.
C28_ReasonIsTriggerKind ==
    [][\A h \in Handlers :
          /\ pc[h] = "ssc_get" /\ pc'[h] = "post"
                => loc'[h].body.event = IF TriggerKind(loc[h]) = "manual"
                                        THEN "manual_capture" ELSE "idle_capture"
          /\ pc[h] = "sfs_get" /\ pc'[h] = "sfs_set"
                => loc'[h].wq[Len(loc'[h].wq)].captureReason = TriggerKind(loc[h])]_vars

C30_RateCheckWritesNothing ==
    [][/\ \A p \in Procs :
             pc[p] \in {"ssc_get", "w_ssc"} /\ StepBy(p) => rl' = rl
       /\ rl' # rl
             => \E p \in Procs :
                   /\ pc[p] = "urc_set" /\ StepBy(p)
                   /\ rl' = loc[p].wr]_vars

\* C30 witness: a rate check has admitted a submission by resetting the
\* hour count for its evaluation, and the persisted keys still hold the full
\* count of the elapsed window
C30_Witness ==
    \E p \in Procs :
        /\ pc[p] = "post"
        /\ loc[p].t - rl.aws_hour_start >= HOUR_MS
        /\ rl.aws_requests_hour >= MAX_REQUESTS_PER_HOUR

\* task h is in submitWorkspaceToAWS: at its rate check or past it
Submitting(h) ==
    \/ pc[h] \in {"w_ssc", "w_details", "w_uid", "w_health",
                  "ssc_get", "post", "urc_get", "urc_set", "sfs_get", "sfs_set"}
    \/ pc[h] \in {"badge", "status"} /\ loc[h].after = "end"

\* C31: a capture cycle reaches its rate checks, health probe and POST only
\* with its snapshot stored under workspace_<timestamp>; the snapshot stays
\* stored when the submission is rate-denied; and when the write of the
\* snapshot fails the cycle ends with nothing sent and nothing queued.
C31_PersistedBeforeSubmission ==
    [][\A h \in Handlers :
          /\ Submitting(h)' => loc'[h].ws \in snaps'
          /\ Submitting(h)' /\ ~Submitting(h) => pc[h] = "cw_persist" /\ pc'[h] = "w_ssc"
          /\ pc[h] = "w_ssc" /\ pc'[h] = "w_details"
                => loc[h].ws \in snaps' /\ posts' = posts /\ queue' = queue
          /\ pc[h] = "cw_persist" /\ StepBy(h) /\ fails' # fails
                => /\ pc'[h] = "free" /\ snaps' = snaps
                   /\ posts' = posts /\ queue' = queue /\ nextId' = nextId]_vars

\* C31 witness: with the hourly cap reached, a cycle has been rate-denied
\* with its snapshot stored and nothing sent or queued
C31_Witness ==
    \E h \in Handlers :
        /\ pc[h] = "w_details" /\ loc[h].ws \in snaps
        /\ rl.aws_requests_hour = MAX_REQUESTS_PER_HOUR
        /\ RunPosts = <<>> /\ queue = OldQueue(1) /\ nextId = 0

\* the screenshot fields of a WindowSnapshot that name a key
KeysOf(win) == {q \in DOMAIN win.tabs : win.tabs[q].screenshot.kind = "img"}

\* C32: when a snapshot is persisted, each screenshot field in it that names
\* a key belongs to the active tab of its window and is the key
\* img_<snapshot timestamp>_<tabId>, under which an image is stored; and when
\* captureVisibleTab gives no image or throws, or the write of the image
\* fails, the window is retained with the field still null and the cycle
\* goes on.
C32_ScreenshotFieldIsStoredKey ==
    [][\A h \in Handlers :
          /\ pc[h] = "cw_persist" /\ StepBy(h) /\ fails' = fails
                => /\ loc[h].ws \in snaps'
                   /\ \A n \in DOMAIN loc[h].ws.windows :
                         LET win == loc[h].ws.windows[n]
                         IN  \A q \in KeysOf(win) :
                                /\ win.tabs[q].isActive
                                /\ win.tabs[q].tabId = win.activeTabId
                                /\ win.tabs[q].screenshot =
                                       ImgKey(loc[h].ws.timestamp, win.tabs[q].tabId)
                                /\ win.tabs[q].screenshot \in imgs
          /\ ( \/ pc[h] = "cw_shot" /\ StepBy(h) /\ pc'[h] # "cw_img"
               \/ pc[h] = "cw_img" /\ StepBy(h) /\ fails' # fails )
                => /\ pc'[h] \in {"cw_tabs", "cw_shot", "cw_persist"}
                   /\ imgs' = imgs
                   /\ LET win == loc'[h].ws.windows[Len(loc'[h].ws.windows)]
                      IN  /\ win.windowId = loc[h].cur.windowId
                          /\ KeysOf(win) = {}
                          /\ \E q \in DOMAIN win.tabs :
                                win.tabs[q].screenshot = NullScreenshot]_vars

\* C32 witness: a persisted snapshot of two windows: the screenshot of the
\* first failed and its active tab's field is null, the second names the
\* stored key of its active tab
C32_Witness ==
    \E ws \in snaps :
        /\ Len(ws.windows) = 2
        /\ ws.windows[1].tabs[1].isActive
        /\ ws.windows[1].tabs[1].screenshot = NullScreenshot
        /\ \E q \in DOMAIN ws.windows[2].tabs :
              /\ ws.windows[2].tabs[q].screenshot = ImgKey(ws.timestamp, 22)
              /\ ImgKey(ws.timestamp, 22) \in imgs
        /\ ImgKey(ws.timestamp, 11) \notin imgs


C34_UnhealthyEndsCycle ==
    [][\A h \in Handlers :
          pc[h] = "w_health" /\ StepBy(h) /\ loc'[h].health # "healthy"
              => /\ pc'[h] = "free" /\ ~isCapturing'
                 /\ posts' = posts /\ queue' = queue /\ nextId' = nextId /\ rl' = rl
                 /\ loc[h].ws \in snaps'
                 /\ loc'[h].ws = LocInit.ws]_vars

\* C34 witness: a cycle has stored its snapshot and ended at the health probe
\* (no rate denial, no store failure): nothing was sent and nothing queued
C34_Witness ==
    /\ \A p \in Procs : pc[p] = "free"
    /\ snaps # {} /\ posts = <<>> /\ nextId = 0 /\ fails = 0
    /\ rl = NoRl /\ queue \in {OldQueue(n) : n \in QueueSeeds}


\* requestsThisMinute as shouldSubmitContext tests it against the cap: the
\* stored count, or 0 when the stored minute window has elapsed
RequestsThisMinute(data, t) ==
    IF t - OrDefault(data.aws_minute_start, t) >= MINUTE_MS THEN 0
    ELSE OrDefault(data.aws_requests_minute, 0)

\* C35: when submit calls do not overlap, a rate check that passes the 12 s
\* interval test finds the effective per-minute count below 5: the per-minute
\* cap denies nothing.
C35_MinuteCapNeverDenies ==
    \A d \in Drains :
        pc[d] = "ssc_get" /\ loc[d].t - OrDefault(rl.last_aws_submission, 0) >= MIN_INTERVAL_MS
            => /\ RequestsThisMinute(rl, loc[d].t) < MAX_REQUESTS_PER_MINUTE
               /\ ShouldSubmitRule(rl, loc[d].t) # "minute"

\* C35 witness: a rate check 12 s after the fifth submission of a minute
\* window: the stored count is 5 and the window has elapsed
C35_Witness ==
    \E d \in Drains :
        /\ pc[d] = "ssc_get"
        /\ loc[d].t - rl.last_aws_submission = MIN_INTERVAL_MS
        /\ rl.aws_requests_minute = MAX_REQUESTS_PER_MINUTE
        /\ rl.last_aws_submission >= StartTime


\* C36 (as stated): in a retry drain during which less than 12 s elapses
\* after a successful resubmission, every later entry of the drain is
\* rate-denied and stays queued: the drain gets at most one correlation id
\* and its final write removes at most one of the entries it read.
C36_DrainRemovesAtMostOne ==
    \A d \in Drains :
        /\ IdsReturned(loc[d]) <= 1
        /\ Cardinality(loc[d].okIds) <= 1
        /\ pc[d] = "d_set" => Len(loc[d].wq) >= Len(loc[d].list) - 1


\* C37 (as stated): isCapturing is true in every state in which a capture
\* cycle is in flight (captureWorkspace has been entered and has neither
\* returned nor thrown), a toggleCapture message handled meanwhile included.
C37_FlagSetWhileInFlight ==
    \A h \in Handlers : InFlight(h) => isCapturing


\* C38: when the only triggers are manualCapture messages, at most one
\* capture cycle is in flight at any time, and the cycle in flight holds
\* isCapturing true, which the handler tests in the step that sets it.
C38_ManualOnlySingleFlight ==
    /\ Cardinality({h \in Handlers : InFlight(h)}) <= 1
    /\ \A h \in Handlers : InFlight(h) => isCapturing
    /\ isCapturing => \E h \in Handlers : InFlight(h)

\* C38 witness: a cycle is past its snapshot write, a listener task is free
\* and a manualCapture message handled now starts no cycle
C38_Witness ==
    /\ \E h \in Handlers : pc[h] = "w_health" /\ loc[h].ws \in snaps
    /\ \E g \in Handlers : pc[g] = "free"
    /\ \A g \in Handlers : ~ENABLED ManualCapture(g)


\* C39: a sweep removes nothing but workspace_ keys whose snapshot is older
\* than its cutoff and the screenshot keys those snapshots name:
\* failed_submissions (entries holding expired snapshots included), the
\* rate-limit keys and the insight cache are as they were.
C39_SweepLeavesOtherKeys ==
    [][\A c \in Sweepers :
          StepBy(c)
              => /\ queue' = queue /\ rl' = rl /\ cache' = cache
                 /\ snaps' \subseteq snaps /\ imgs' \subseteq imgs
                 /\ \A ws \in snaps \ snaps' : ws.timestamp < loc[c].t
                 /\ (imgs \ imgs') \subseteq
                        UNION {Screenshots(ws) : ws \in snaps \ snaps'}]_vars

\* C39 witness: a sweep has removed the snapshot 8 days old and its
\* screenshot; the queued submission that holds the same snapshot, the
\* rate-limit keys and the insight cache are still stored
C39_Witness ==
    \E c \in Sweepers :
        /\ pc[c] = "free" /\ fails = 0
        /\ StartTime - 8 * DAY_MS \in loc[c].del.snaps
        /\ OldSnapshot(8 * DAY_MS, TRUE) \notin snaps
        /\ queue = <<ExpiredFailed>>
        /\ rl.last_aws_submission = StartTime - MIN_INTERVAL_MS
        /\ cache.present

\* C40 (as stated): a sweep that completes leaves no img_<t>_<tabId> key
\* whose t is older than its cutoff, whether or not a stored snapshot names
\* the key.
C40_SweepDeletesOldImages ==
    [][\A c \in Sweepers :
          pc[c] \in {"cl_get", "cl_remove"} /\ pc'[c] = "free" /\ fails' = fails
              => \A key \in imgs' : key.ts >= loc[c].t]_vars

====
